---- MODULE Spec2Model ----
(***************************************************************************)
(* Nexus: the App component (search context, history, analysis calls,     *)
(* the card list and the autocomplete of the search input),                *)
(* the GraphView component (hover / active / selection state machine,      *)
(* layout sampler, score statistics, root cluster, animation clock, frame  *)
(* and resize effects) and the two functions of the Gemini service.        *)
(*                                                                         *)
(* JavaScript values are modelled as follows.                              *)
(*   - a string is the sequence of its characters (one-character strings); *)
(*   - null (or undefined) is the empty tuple, any other value x of a       *)
(*     T | null (or optional) field is <<x>>;                              *)
(*   - a node id (string | number | null) is <<"string", s>>,              *)
(*     <<"number", n>> or null, so that === between a string and a number  *)
(*     is FALSE as in JavaScript;                                          *)
(*   - an array is a sequence; JavaScript index i is TLA+ index i + 1.     *)
(***************************************************************************)
EXTENDS Integers, Sequences, FiniteSets, TLC

VARIABLES
  query,          \* App: text of the search input
  contextPapers,  \* App: the ContextSet, Paper[]
  searchHistory,  \* App: Paper[][], most recent first
  isHistoryOpen,  \* App: history popover open
  state,          \* App: SearchState {isLoading, error, data}
  activeTab,      \* App: TabState
  viewMode,       \* App: 'LIST' | 'GRAPH'
  pending,        \* analyzePaper calls awaiting their result
  calls,          \* number of analyzePaper calls started so far
  selectedPaper,  \* GraphView: Paper | null (detail overlay)
  activeNodeId,   \* GraphView: string | number | null
  hoveredId,      \* GraphView: string | number | null
  dimensions,     \* GraphView: {width, height}
  time,           \* GraphView: animation clock, in thousandths
  nodes,          \* GraphView: the memoized layout (useMemo on papers)
  stats,          \* GraphView: the memoized scoreStats (useMemo on papers)
  animationFrame, \* GraphView: handle of the frame request made last
  observing,      \* GraphView: the ResizeObserver observes the container
  frameRequests,  \* browser: the pending requestAnimationFrame callbacks
  rng,            \* browser: the state of the Math.random generator
  pointerOver,    \* browser: ids of the nodes the pointer is within
  currentCardIndex, \* App: index of the card the list view shows
  activeCard,     \* App: the props PaperCard got in the list view's render
  suggestions,    \* App: string[], the autocomplete suggestions
  showSuggestions,       \* App: the dropdown was asked to show
  isFetchingSuggestions, \* App: a suggestion fetch set the spinner
  skipSuggestionFetch,   \* App: the ref that makes the query effect skip
  debounceTimer,  \* browser: the query of the pending 600 ms timer, or null
  suggestFetches, \* the queries of the getPaperSuggestions calls in flight
  querySelected,  \* history variable: a selection, pivot or restore wrote
                  \* the query and the user has not edited it since
  suggestCall,    \* the getPaperSuggestions call made last, and its result
  lastEvent       \* history variable: the event handled last

appVars   == <<query, contextPapers, searchHistory, isHistoryOpen, state,
               activeTab, viewMode, pending, calls>>
graphVars == <<selectedPaper, activeNodeId, hoveredId, dimensions, time>>
layoutVars == <<nodes, stats, rng>>
effectVars == <<animationFrame, observing, frameRequests>>
listVars  == <<currentCardIndex, activeCard>>
suggestVars == <<suggestions, showSuggestions, isFetchingSuggestions,
                 skipSuggestionFetch, debounceTimer, suggestFetches,
                 querySelected>>
\* the autocomplete state a handler without setState on it leaves alone;
\* the timer is left to the render, whose unmount clears it
suggestKept == <<suggestions, showSuggestions, isFetchingSuggestions,
                 skipSuggestionFetch, suggestFetches, querySelected>>
vars      == <<query, contextPapers, searchHistory, isHistoryOpen, state,
               activeTab, viewMode, pending, calls,
               selectedPaper, activeNodeId, hoveredId, dimensions, time,
               nodes, stats, rng, animationFrame, observing, frameRequests,
               pointerOver, currentCardIndex, activeCard,
               suggestions, showSuggestions, isFetchingSuggestions,
               skipSuggestionFetch, debounceTimer, suggestFetches,
               querySelected, suggestCall, lastEvent>>

---------------------------------------------------------------------------
(* Bounds of the model *)

\* analyzePaper calls started in one behaviour
MaxCalls == 3
\* animation frames delivered in one behaviour
MaxTicks == 1
\* nodes (overlapping ones) the pointer is within at one time
MaxOver == 2
\* getPaperSuggestions calls in flight at one time
MaxFetches == 2

---------------------------------------------------------------------------
(* JavaScript values *)

Null == <<>>
Some(x) == <<x>>
Str(s) == <<"string", s>>
Num(n) == <<"number", n>>

\* The characters the model uses, in increasing UTF-16 code unit order.
Alphabet ==
  <<" ", "-", "0", "1", "2", "3", "4", "5", "6", "7", "8", "9",
    "A", "B", "G", "e", "o", "p", "r", "t", "|">>

CharCode(c) == CHOOSE k \in 1..Len(Alphabet) : Alphabet[k] = c

\* a < b for two strings, as Array.prototype.sort compares them by default
RECURSIVE StrLess(_, _)
StrLess(a, b) ==
  IF a = <<>> THEN b # <<>>
  ELSE IF b = <<>> THEN FALSE
  ELSE IF Head(a) = Head(b) THEN StrLess(Tail(a), Tail(b))
  ELSE CharCode(Head(a)) < CharCode(Head(b))

RECURSIVE Insert(_, _)
Insert(s, sorted) ==
  IF sorted = <<>> THEN <<s>>
  ELSE IF StrLess(s, Head(sorted)) THEN <<s>> \o sorted
  ELSE <<Head(sorted)>> \o Insert(s, Tail(sorted))

\* Array.prototype.sort() on strings (stable)
RECURSIVE sort(_)
sort(ss) ==
  IF ss = <<>> THEN <<>>
  ELSE Insert(ss[Len(ss)], sort(SubSeq(ss, 1, Len(ss) - 1)))

\* Array.prototype.join(sep)
RECURSIVE join(_, _)
join(ss, sep) ==
  IF ss = <<>> THEN <<>>
  ELSE IF Len(ss) = 1 THEN ss[1]
  ELSE ss[1] \o sep \o join(Tail(ss), sep)

RECURSIVE trimStart(_)
trimStart(s) ==
  IF s # <<>> /\ Head(s) = " " THEN trimStart(Tail(s)) ELSE s

RECURSIVE trimEnd(_)
trimEnd(s) ==
  IF s # <<>> /\ s[Len(s)] = " " THEN trimEnd(SubSeq(s, 1, Len(s) - 1)) ELSE s

\* String.prototype.trim()
trim(s) == trimEnd(trimStart(s))

\* Number -> decimal string, as a template literal converts it
RECURSIVE NatToStr(_)
NatToStr(n) ==
  IF n < 10 THEN <<Alphabet[n + 3]>>
  ELSE NatToStr(n \div 10) \o <<Alphabet[(n % 10) + 3]>>

\* p => p.title over an array
titlesOf(papers) == [k \in 1..Len(papers) |-> papers[k].title]

\* a duplicate check that looks at the root paper only
hasTitle_RootOnly(papers, title) == Len(papers) > 0 /\ papers[1].title = title

\* papers.some(p => p.title === title)
hasTitle(papers, title) == \E k \in 1..Len(papers) : papers[k].title = title

---------------------------------------------------------------------------
(* Papers and analysis responses the model draws its inputs from *)

\* a paper with relevanceScore s; the field is a number | undefined value
Paper(t, s) == [title |-> t, relevanceScore |-> Some(s)]

TitleA == <<"A", "t", "t">>
TitleB == <<"B", "e", "r">>
TitleC == <<"G", "p", "t">>
TitleD == <<"B", "o", "t">>
TitleE == <<"G", "e", "t">>
TitleF == <<"A", "p", "t">>

\* what the user may type into the search input
QueryInputs == {<<>>, <<" ">>, TitleA}

\* payloads analyzePaper may resolve with; the second correlated list of
\* RespX repeats a title the user may have searched for
RespX == [correlatedPapers    |-> <<Paper(TitleB, 90), Paper(TitleC, 30)>>,
          authorContextPapers |-> <<Paper(TitleA, 50), Paper(TitleB, 90)>>]
RespY == [correlatedPapers    |-> <<Paper(TitleC, 30)>>,
          authorContextPapers |-> <<>>]
Responses == {RespX, RespY}

\* widths the ResizeObserver may report
Widths == {600, 320}

ErrorMessage == "Failed to analyze. Please check your connection and try again."

---------------------------------------------------------------------------
(* The remote service (ai.models.generateContent) and the two functions    *)
(* that call it.  Of a response text the model keeps whether it is the     *)
(* empty string and what JSON.parse makes of it: the value it returns, or  *)
(* null here for a text it rejects with a SyntaxError.                     *)

\* how a call of generateContent may end: with an error, or with a response
\* whose text is undefined, empty, not JSON, or the JSON text of `value`
RemoteError == [error |-> TRUE, text |-> Null]
NoText      == [error |-> FALSE, text |-> Null]
EmptyText   == [error |-> FALSE, text |-> Some([empty |-> TRUE, json |-> Null])]
GarbledText == [error |-> FALSE, text |-> Some([empty |-> FALSE, json |-> Null])]
JsonText(value) ==
  [error |-> FALSE, text |-> Some([empty |-> FALSE, json |-> Some(value)])]

RemoteFailures == {RemoteError, NoText, EmptyText, GarbledText}

\* !text
noText(text) == text = Null \/ text[1].empty

\* the outcome of a function: it returned `value`, or it threw
Returned(value) == [threw |-> FALSE, value |-> value]
Threw == [threw |-> TRUE, value |-> Null]

\* analyzePaper that answers a response without text with an empty analysis
analyzePaper_SwallowsNoText(outcome) ==
  IF outcome.error THEN Threw
  ELSE IF noText(outcome.text)
  THEN Returned([correlatedPapers |-> <<>>, authorContextPapers |-> <<>>])
  ELSE IF outcome.text[1].json = Null THEN Threw
  ELSE Returned(outcome.text[1].json[1])

\* analyzePaper, its remote call ending with `outcome`: the catch logs and
\* rethrows
analyzePaper(outcome) ==
  IF outcome.error THEN Threw
  ELSE IF noText(outcome.text) THEN Threw
  ELSE IF outcome.text[1].json = Null THEN Threw
  ELSE Returned(outcome.text[1].json[1])

\* getPaperSuggestions with JSON.parse after the try block
getPaperSuggestions_ParsesOutsideTry(q, outcome) ==
  IF q = <<>> \/ Len(q) < 3
  THEN [called |-> FALSE, result |-> Returned(<<>>)]
  ELSE [called |-> TRUE,
        result |-> IF outcome.error THEN Returned(<<>>)
                   ELSE IF noText(outcome.text) THEN Returned(<<>>)
                   ELSE IF outcome.text[1].json = Null THEN Threw
                   ELSE Returned(outcome.text[1].json[1])]

\* getPaperSuggestions(q), its remote call (if it makes one) ending with
\* `outcome`: whether generateContent was called, and what the function
\* returned; the catch logs and returns []
getPaperSuggestions(q, outcome) ==
  IF q = <<>> \/ Len(q) < 3
  THEN [called |-> FALSE, result |-> Returned(<<>>)]
  ELSE [called |-> TRUE,
        result |-> IF outcome.error THEN Returned(<<>>)
                   ELSE IF noText(outcome.text) THEN Returned(<<>>)
                   ELSE IF outcome.text[1].json = Null THEN Returned(<<>>)
                   ELSE Returned(outcome.text[1].json[1])]

---------------------------------------------------------------------------
(* App: derived values *)

isLanding == state.data = Null /\ ~state.isLoading /\ state.error = Null

\* renderResults reaches the tabs, the view toggle and the list / graph view
resultsShown == ~state.isLoading /\ state.error = Null /\ state.data # Null

\* <GraphView> is part of the rendered tree
graphMounted == resultsShown /\ viewMode = "GRAPH"

papersToShow ==
  IF activeTab = "CORRELATED" THEN state.data[1].correlatedPapers
  ELSE state.data[1].authorContextPapers

\* identity of the array handed to GraphView as `papers`: a list of the
\* response object of one analyzePaper call
papersIdentity == <<state.data[1].ref, activeTab>>

\* the history button and popover are rendered
historyShown == ~isLanding /\ searchHistory # <<>>

---------------------------------------------------------------------------
(* GraphView: nodes *)

\* a root id taken from the index alone, as the result ids are
rootId_Numeric(i) == Num(i)

\* id of rootNodes[i]: `root-${i}`
rootId(i) == Str(<<"r", "o", "o", "t", "-">> \o NatToStr(i))

\* id of animatedNodes[i]: the numeric index
resultId(i) == Num(i)

\* indices of rootNodes (one per rootPapers entry) and of animatedNodes
rootIndices == 0..(Len(contextPapers) - 1)
resultIndices == 0..(Len(papersToShow) - 1)

rootPaper(i) == contextPapers[i + 1]
resultPaper(i) == papersToShow[i + 1]

\* ids of the node elements in the rendered tree
renderedIds ==
  IF graphMounted
  THEN {rootId(i) : i \in rootIndices} \cup {resultId(i) : i \in resultIndices}
  ELSE {}

---------------------------------------------------------------------------
(* GraphView: the layout of the result nodes, sampled with Math.random     *)
(*                                                                         *)
(* A value of Math.random() is kept in thousandths (0..999), an angle in   *)
(* milliradians and a distance in units of 0.00001 of the maximum radius,  *)
(* so that 0.55 + random * 0.35 is exact.                                  *)

Abs(x) == IF x < 0 THEN -x ELSE x

\* Math.PI * 2, in milliradians
TwoPiMilli == 6283
\* distance = 0.55 + Math.random() * 0.35
DistanceBase == 55000
DistanceSpan == 35
\* angleDiff < 0.5 && Math.abs(other.distance - distance) < 0.2
AngleGap == 500
DistanceGap == 20000
\* while (!valid && attempts < 150)
AttemptBudget == 150

\* The generator returns the values of a cycle in turn.
SteadyCycle == <<250, 700>>
RichCycle == <<100, 100, 120, 150, 600, 600, 300, 900>>
EdgeCycle == <<0, 0, 999, 999, 0, 999>>
CrowdedCycle == <<250, 700, 260, 710>>
WrapCycle == <<0, 500, 999, 500>>
Seed(cycle) == [cycle |-> cycle, pos |-> 0]
Seeds == {Seed(SteadyCycle), Seed(RichCycle), Seed(EdgeCycle),
          Seed(CrowdedCycle), Seed(WrapCycle)}

\* Math.random(): the value returned and the generator afterwards
random(g) ==
  [value |-> g.cycle[g.pos + 1],
   rng |-> [g EXCEPT !.pos = (g.pos + 1) % Len(g.cycle)]]

\* the for loop over `generated`: the candidate is too close to a placed node
collides(generated, angle, distance) ==
  \E k \in 1..Len(generated) :
    /\ Abs(generated[k].angle - angle) < AngleGap
    /\ Abs(generated[k].distance - distance) < DistanceGap

\* the generator after n more calls of Math.random()
advance(g, n) == [g EXCEPT !.pos = (g.pos + n) % Len(g.cycle)]

\* a candidate whose distance starts at the centre
candidate_FromCentre(g, k) ==
  LET r1 == random(advance(g, 2 * k))
      r2 == random(r1.rng)
  IN  [angle |-> (r1.value * TwoPiMilli) \div 1000,
       distance |-> r2.value * DistanceSpan]

\* the candidate of pass k (0-based) of the while loop of one paper, which
\* the generator enters in state g; a pass calls Math.random() twice
candidate(g, k) ==
  LET r1 == random(advance(g, 2 * k))
      r2 == random(r1.rng)
  IN  [angle |-> (r1.value * TwoPiMilli) \div 1000,
       distance |-> DistanceBase + r2.value * DistanceSpan]

\* passes of one while loop worth looking at: the candidates of a cyclic
\* generator repeat after Len(g.cycle) passes
passes(g) ==
  IF Len(g.cycle) < AttemptBudget THEN Len(g.cycle) ELSE AttemptBudget

\* a loop without the collision test: the first candidate is taken
sampleNode_FirstCandidate(generated, g) ==
  [angle |-> candidate(g, 0).angle,
   distance |-> candidate(g, 0).distance,
   valid |-> TRUE,
   attempts |-> 1,
   rng |-> advance(g, 2)]

\* a loop that falls back to its first candidate when the budget runs out
sampleNode_KeepsFirst(generated, g) ==
  LET accepted == {k \in 0..(passes(g) - 1) :
                     \E c \in {candidate(g, k)} :
                       ~collides(generated, c.angle, c.distance)}
      last == IF accepted = {} THEN AttemptBudget - 1
              ELSE CHOOSE k \in accepted : \A j \in accepted : k <= j
      placed == IF accepted = {} THEN 0 ELSE last
  IN  [angle |-> candidate(g, placed).angle,
       distance |-> candidate(g, placed).distance,
       valid |-> accepted # {},
       attempts |-> last + 1,
       rng |-> advance(g, 2 * (last + 1))]

\* the while loop of one paper: it ends with the first pass whose candidate
\* is valid, or with pass number AttemptBudget; the candidate of the last
\* pass is the one pushed.  With the node come the final values of the
\* locals `valid` and `attempts`.
sampleNode(generated, g) ==
  LET accepted == {k \in 0..(passes(g) - 1) :
                     \E c \in {candidate(g, k)} :
                       ~collides(generated, c.angle, c.distance)}
      last == IF accepted = {} THEN AttemptBudget - 1
              ELSE CHOOSE k \in accepted : \A j \in accepted : k <= j
  IN  [angle |-> candidate(g, last).angle,
       distance |-> candidate(g, last).distance,
       valid |-> accepted # {},
       attempts |-> last + 1,
       rng |-> advance(g, 2 * (last + 1))]

\* papers.forEach(...): the nodes generated for `papers` after `generated`
RECURSIVE generateNodes(_, _, _)
generateNodes(papers, generated, g) ==
  IF papers = <<>> THEN [generated |-> generated, rng |-> g]
  ELSE CHOOSE result \in
         {generateNodes(Tail(papers),
                        Append(generated, [angle |-> n.angle,
                                           distance |-> n.distance,
                                           paper |-> Head(papers),
                                           valid |-> n.valid,
                                           attempts |-> n.attempts]),
                        n.rng) : n \in {sampleNode(generated, g)}} : TRUE

\* the memo of an unmounted GraphView
NoNodes == [deps |-> Null, value |-> <<>>]

\* useMemo that runs its callback on every render
useMemoNodes_EveryRender ==
  IF ~graphMounted'
  THEN nodes' = NoNodes /\ UNCHANGED rng
  ELSE LET g == generateNodes(papersToShow', <<>>, rng)
       IN  /\ nodes' = [deps |-> Some(papersIdentity'), value |-> g.generated]
           /\ rng' = g.rng

\* useMemo with [] as dependencies: the layout of the list shown on mount
useMemoNodes_Stale ==
  IF ~graphMounted'
  THEN nodes' = NoNodes /\ UNCHANGED rng
  ELSE IF graphMounted
  THEN UNCHANGED <<nodes, rng>>
  ELSE LET g == generateNodes(papersToShow', <<>>, rng)
       IN  /\ nodes' = [deps |-> Some(papersIdentity'), value |-> g.generated]
           /\ rng' = g.rng

\* const nodes = useMemo(..., [papers]) in the render that follows a state
\* change: the callback runs on mount and when `papers` is another array
useMemoNodes ==
  IF ~graphMounted'
  THEN nodes' = NoNodes /\ UNCHANGED rng
  ELSE IF graphMounted /\ nodes.deps = Some(papersIdentity')
  THEN UNCHANGED <<nodes, rng>>
  ELSE LET g == generateNodes(papersToShow', <<>>, rng)
       IN  /\ nodes' = [deps |-> Some(papersIdentity'), value |-> g.generated]
           /\ rng' = g.rng

---------------------------------------------------------------------------
(* GraphView: score statistics *)

\* x ?? 0 and x || 0 for a relevanceScore that is a number or missing
\* (undefined, modelled as Null)
nullish(x) == IF x = Null THEN 0 ELSE x[1]
falsy(x) == IF x = Null \/ x = Some(0) THEN 0 ELSE x[1]

\* Math.min(...scores) and Math.max(...scores) of a non-empty array
MathMin(scores) ==
  CHOOSE v \in {scores[k] : k \in 1..Len(scores)} :
    \A k \in 1..Len(scores) : v <= scores[k]
MathMax(scores) ==
  CHOOSE v \in {scores[k] : k \in 1..Len(scores)} :
    \A k \in 1..Len(scores) : v >= scores[k]

\* scoreStats whose default for the empty list has no range
scoreStats_EmptyRangeZero(papers) ==
  LET scores == [k \in 1..Len(papers) |-> nullish(papers[k].relevanceScore)]
  IN  IF Len(scores) = 0 THEN [min |-> 0, max |-> 0, range |-> 0]
      ELSE [min |-> MathMin(scores), max |-> MathMax(scores),
            range |-> IF MathMax(scores) = MathMin(scores) THEN 1
                      ELSE MathMax(scores) - MathMin(scores)]

\* scoreStats that divides by the maximum
scoreStats_RangeIsMax(papers) ==
  LET scores == [k \in 1..Len(papers) |-> nullish(papers[k].relevanceScore)]
  IN  IF Len(scores) = 0 THEN [min |-> 0, max |-> 100, range |-> 100]
      ELSE [min |-> MathMin(scores), max |-> MathMax(scores),
            range |-> IF MathMax(scores) = MathMin(scores) THEN 1
                      ELSE MathMax(scores)]

\* scoreStats without the guard for equal scores
scoreStats_NoTieGuard(papers) ==
  LET scores == [k \in 1..Len(papers) |-> nullish(papers[k].relevanceScore)]
  IN  IF Len(scores) = 0 THEN [min |-> 0, max |-> 100, range |-> 100]
      ELSE [min |-> MathMin(scores), max |-> MathMax(scores),
            range |-> MathMax(scores) - MathMin(scores)]

scoreStats(papers) ==
  LET scores == [k \in 1..Len(papers) |-> nullish(papers[k].relevanceScore)]
  IN  IF Len(scores) = 0 THEN [min |-> 0, max |-> 100, range |-> 100]
      ELSE [min |-> MathMin(scores), max |-> MathMax(scores),
            range |-> IF MathMax(scores) = MathMin(scores) THEN 1
                      ELSE MathMax(scores) - MathMin(scores)]

\* the memo of an unmounted GraphView
NoStats == [deps |-> Null, value |-> Null]

\* const scoreStats = useMemo(..., [papers]) in the render that follows a
\* state change
useMemoScoreStats ==
  IF ~graphMounted'
  THEN stats' = NoStats
  ELSE IF graphMounted /\ stats.deps = Some(papersIdentity')
  THEN UNCHANGED stats
  ELSE stats' = [deps |-> Some(papersIdentity'),
                 value |-> Some(scoreStats(papersToShow'))]

---------------------------------------------------------------------------
(* GraphView: component state on mount, and its fate across App renders *)

TimeStep == 5

\* the useState initial values; the animation effect of a mount calls
\* animate() once, which is the first setTime(t => t + 0.005)
graphInitial ==
  /\ selectedPaper' = Null
  /\ activeNodeId' = Null
  /\ hoveredId' = Null
  /\ dimensions' = [width |-> 600, height |-> 600]
  /\ time' = IF graphMounted' THEN TimeStep ELSE 0

\* An entry of the browser's list of animation frame callbacks: the handle
\* requestAnimationFrame returned for it, and whether the GraphView instance
\* whose animate it calls is still mounted.  Handles are unique among the
\* requests of one instance, which are numbered 1, 2, ...
FrameRequest(handle, live) == [handle |-> handle, live |-> live]

\* cancelAnimationFrame(handle), called by the mounted instance; a handle
\* that is undefined or no longer pending cancels nothing
cancelAnimationFrame(requests, handle) ==
  {r \in requests : ~(r.live /\ Some(r.handle) = handle)}

\* the callbacks still listed when their instance is unmounted
orphaned(requests) == {FrameRequest(r.handle, FALSE) : r \in requests}

\* the two effects of a mount: animate() sets the clock (graphInitial) and
\* requests the first frame; the observer starts to observe the container
mountEffects ==
  /\ animationFrame' = Some(1)
  /\ frameRequests' = frameRequests \cup {FrameRequest(1, TRUE)}
  /\ observing' = TRUE

\* a cleanup that cancels the handle of the first request
unmountEffects_CancelsFirst ==
  /\ frameRequests' = orphaned(cancelAnimationFrame(frameRequests, Some(1)))
  /\ animationFrame' = Null
  /\ observing' = FALSE

\* the two cleanups of an unmount: cancelAnimationFrame(animationFrame) and
\* observer.disconnect()
unmountEffects ==
  /\ frameRequests' = orphaned(cancelAnimationFrame(frameRequests, animationFrame))
  /\ animationFrame' = Null
  /\ observing' = FALSE

\* the effects (both with [] as dependencies) across an App render
graphEffects ==
  IF graphMounted = graphMounted' THEN UNCHANGED effectVars
  ELSE IF graphMounted' THEN mountEffects
  ELSE unmountEffects

\* After an App state change: the mounted GraphView keeps its state while it
\* stays in the tree; once unmounted its state is gone and the next mount
\* starts from the useState initial values.
\* A node element that leaves the tree gets no mouseleave event; the pointer
\* is simply no longer within it.
renderGraph ==
  /\ IF graphMounted /\ graphMounted' THEN UNCHANGED graphVars ELSE graphInitial
  /\ graphEffects
  /\ useMemoNodes
  /\ useMemoScoreStats
  /\ pointerOver' = pointerOver \cap renderedIds'

\* the list (carousel) view is part of the rendered tree
listShown == resultsShown /\ viewMode = "LIST"

\* papersToShow[index]: undefined beyond the end of the list
cardAt(papers, index) ==
  IF index < Len(papers) THEN Some(papers[index + 1]) ELSE Null

\* PaperCard reads paper.title and throws a TypeError for a paper that is
\* undefined.  Nothing in the tree catches an error thrown in a render, so
\* React unmounts the whole tree: activeCard keeps the props of the render
\* that threw, and the page handles no event any more.
renderThrew == activeCard # Null /\ activeCard[1].paper = Null

\* After an App state change that leaves currentCardIndex = index and the
\* 600 ms timer `timer` pending: the render, in which the list view (if
\* shown) hands papersToShow[index] and the index to PaperCard, and then
\* the effect on [activeTab, state.data], which sets the index to 0 when
\* one of the two is another value, so that the list is rendered once more
\* with papersToShow[0]; the response objects of two calls differ by their
\* ref.  The effect runs after the commit, so not at all when the render
\* threw: the unmount of the tree then runs the cleanup of the effect on
\* [query], clearTimeout.  An unmounted tree handles no event and renders
\* nothing.
renderApp(index, timer) ==
  LET threw == listShown' /\ cardAt(papersToShow', index) = Null
      reset == activeTab' # activeTab \/ state'.data # state.data
      shown == IF ~threw /\ reset THEN 0 ELSE index
  IN  /\ ~renderThrew
      /\ activeCard' =
           IF listShown'
           THEN Some([paper |-> cardAt(papersToShow', shown), index |-> shown])
           ELSE Null
      /\ currentCardIndex' = shown
      /\ debounceTimer' = IF threw THEN Null ELSE timer

\* the same after a handler that leaves the query, and so the timer, alone
renderList(index) == renderApp(index, debounceTimer)

---------------------------------------------------------------------------
(* App: the autocomplete *)

\* the dropdown is part of the rendered tree
dropdownShown ==
  (showSuggestions \/ isFetchingSuggestions) /\ Len(query) >= 3

\* The effect on [query], in the render after a handler that left the ref
\* skipSuggestionFetch at `skip`.  It runs only if query is another string
\* than before: first the cleanup of its last run (clearTimeout), then
\* either the skip (the ref is reset, no timer) or a new timer that holds
\* the new query.  With the same query the ref and the timer stay.
\* queryEffect is what the effect does to the ref, effectTimer the timer
\* that is pending after it.
queryEffect(skip) ==
  skipSuggestionFetch' = IF query' = query THEN skip ELSE FALSE

effectTimer(skip) ==
  IF query' = query THEN debounceTimer
  ELSE IF skip THEN Null
  ELSE Some(query')

\* the handler leaves the suggestion list and the dropdown as they are
suggestionsKept ==
  UNCHANGED <<suggestions, showSuggestions, isFetchingSuggestions,
              suggestFetches>>

\* setSuggestions([]); setShowSuggestions(false)
suggestionsCleared ==
  /\ suggestions' = <<>>
  /\ showSuggestions' = FALSE
  /\ UNCHANGED <<isFetchingSuggestions, suggestFetches>>

---------------------------------------------------------------------------
(* App: handlers *)

HistoryMax == 5

\* addToHistory: the functional update handed to setSearchHistory
addToHistory(prev, newContext) ==
  IF /\ Len(prev) > 0
     /\ join(sort(titlesOf(prev[1])), <<"|">>)
          = join(sort(titlesOf(newContext)), <<"|">>)
  THEN prev
  ELSE LET updated == <<newContext>> \o prev
       IN  SubSeq(updated, 1, IF Len(updated) < HistoryMax
                              THEN Len(updated) ELSE HistoryMax)

\* executeSearch whose first setState leaves the error in place
executeSearch_KeepsError(papers) ==
  /\ state' = [state EXCEPT !.isLoading = TRUE]
  /\ pending' = pending \cup {[ref |-> calls + 1, titles |-> titlesOf(papers)]}
  /\ calls' = calls + 1

\* executeSearch up to its await: the loading state, and the analyzePaper
\* call over the titles of `papers`
executeSearch(papers) ==
  /\ state' = [state EXCEPT !.isLoading = TRUE, !.error = Null]
  /\ pending' = pending \cup {[ref |-> calls + 1, titles |-> titlesOf(papers)]}
  /\ calls' = calls + 1

\* executeSearch after the await, analyzePaper resolved with `result`
executeSearchResolved(result) ==
  state' = [isLoading |-> FALSE, error |-> Null, data |-> Some(result)]

\* executeSearch after the await, analyzePaper threw
executeSearchRejected ==
  state' = [isLoading |-> FALSE, error |-> Some(ErrorMessage), data |-> Null]

\* executeSearch after the await of the call c: the try block goes on with
\* the value analyzePaper returned, the catch block takes over if it threw.
\* The response object is told apart from those of other calls by c.ref.
executeSearchSettled(c, result) ==
  IF result.threw THEN executeSearchRejected
  ELSE executeSearchResolved(
         [ref |-> c.ref, titles |-> c.titles,
          correlatedPapers |-> result.value.correlatedPapers,
          authorContextPapers |-> result.value.authorContextPapers])

handleRestoreHistory(historyContext) ==
  /\ isHistoryOpen' = FALSE
  /\ contextPapers' = historyContext
  /\ query' = IF Len(historyContext) > 0 THEN historyContext[1].title ELSE query
  /\ queryEffect(IF Len(historyContext) > 0 THEN TRUE ELSE skipSuggestionFetch)
  /\ querySelected' = (Len(historyContext) > 0 \/ querySelected)
  /\ suggestionsKept
  /\ executeSearch(historyContext)
  /\ UNCHANGED <<searchHistory, activeTab, viewMode>>

handleInitialSearch ==
  IF trim(query) = <<>>
  THEN UNCHANGED appVars /\ UNCHANGED suggestKept
  ELSE LET initialRoot == Paper(query, 100)
           newContext == <<initialRoot>>
       IN  /\ suggestionsCleared
           /\ UNCHANGED <<skipSuggestionFetch, querySelected>>
           /\ searchHistory' = addToHistory(searchHistory, newContext)
           /\ contextPapers' = newContext
           /\ executeSearch(newContext)
           /\ UNCHANGED <<query, isHistoryOpen, activeTab, viewMode>>

\* handleNewSearch that drops the pivot paper from the new context
handleNewSearch_EmptyContext(paper) ==
  LET newContext == <<>>
  IN  /\ query' = paper.title
      /\ queryEffect(TRUE)
      /\ querySelected' = TRUE
      /\ suggestionsCleared
      /\ searchHistory' = addToHistory(searchHistory, newContext)
      /\ contextPapers' = newContext
      /\ executeSearch(newContext)
      /\ UNCHANGED <<isHistoryOpen, activeTab, viewMode>>

handleNewSearch(paper) ==
  LET newContext == <<paper>>
  IN  /\ query' = paper.title
      /\ queryEffect(TRUE)
      /\ querySelected' = TRUE
      /\ suggestionsCleared
      /\ searchHistory' = addToHistory(searchHistory, newContext)
      /\ contextPapers' = newContext
      /\ executeSearch(newContext)
      /\ UNCHANGED <<isHistoryOpen, activeTab, viewMode>>

\* handleAddToContext without the duplicate check
handleAddToContext_NoCheck(paper) ==
  LET newContext == contextPapers \o <<paper>>
  IN  /\ searchHistory' = addToHistory(searchHistory, newContext)
      /\ contextPapers' = newContext
      /\ executeSearch(newContext)
      /\ UNCHANGED <<query, isHistoryOpen, activeTab, viewMode>>

\* handleAddToContext that puts the new paper first
handleAddToContext_Prepends(paper) ==
  IF hasTitle(contextPapers, paper.title)
  THEN UNCHANGED appVars
  ELSE LET newContext == <<paper>> \o contextPapers
       IN  /\ searchHistory' = addToHistory(searchHistory, newContext)
           /\ contextPapers' = newContext
           /\ executeSearch(newContext)
           /\ UNCHANGED <<query, isHistoryOpen, activeTab, viewMode>>

handleAddToContext(paper) ==
  IF hasTitle(contextPapers, paper.title)
  THEN UNCHANGED appVars
  ELSE LET newContext == contextPapers \o <<paper>>
       IN  /\ searchHistory' = addToHistory(searchHistory, newContext)
           /\ contextPapers' = newContext
           /\ executeSearch(newContext)
           /\ UNCHANGED <<query, isHistoryOpen, activeTab, viewMode>>

\* the handler starts an analyzePaper call (bounded by MaxCalls)
callBudget == calls < MaxCalls

Event(op, id, newSearch) == [op |-> op, id |-> id, newSearch |-> newSearch]

---------------------------------------------------------------------------
(* App: events *)

\* <input onChange>
ChangeQuery(q) ==
  /\ query' = q
  /\ UNCHANGED <<contextPapers, searchHistory, isHistoryOpen, state,
                 activeTab, viewMode, pending, calls>>
  /\ showSuggestions' = IF Len(q) < 3 THEN FALSE ELSE showSuggestions
  /\ UNCHANGED <<suggestions, isFetchingSuggestions, suggestFetches>>
  /\ queryEffect(skipSuggestionFetch)
  /\ querySelected' = IF q = query THEN querySelected ELSE FALSE
  /\ lastEvent' = Event("ChangeQuery", Null, <<>>)
  /\ UNCHANGED suggestCall
  /\ renderGraph
  /\ renderApp(currentCardIndex, effectTimer(skipSuggestionFetch))

\* <form onSubmit>; the submit button is disabled while loading
SubmitSearch ==
  /\ ~state.isLoading
  /\ trim(query) = <<>> \/ callBudget
  /\ handleInitialSearch
  /\ lastEvent' = Event("SubmitSearch", Null, <<>>)
  /\ UNCHANGED suggestCall
  /\ renderGraph
  /\ renderList(currentCardIndex)

\* the logo of the landing page header
LogoClick ==
  /\ isLanding
  /\ contextPapers' = <<>>
  /\ state' = [isLoading |-> FALSE, error |-> Null, data |-> Null]
  /\ query' = <<>>
  /\ UNCHANGED <<searchHistory, isHistoryOpen, activeTab, viewMode, pending, calls>>
  /\ queryEffect(skipSuggestionFetch)
  /\ suggestionsKept
  /\ UNCHANGED querySelected
  /\ lastEvent' = Event("LogoClick", Null, <<>>)
  /\ UNCHANGED suggestCall
  /\ renderGraph
  /\ renderApp(currentCardIndex, effectTimer(skipSuggestionFetch))

\* the floating history button
ToggleHistory ==
  /\ historyShown
  /\ isHistoryOpen' = ~isHistoryOpen
  /\ UNCHANGED <<query, contextPapers, searchHistory, state, activeTab,
                 viewMode, pending, calls>>
  /\ lastEvent' = Event("ToggleHistory", Null, <<>>)
  /\ UNCHANGED suggestCall
  /\ UNCHANGED suggestKept
  /\ renderGraph
  /\ renderList(currentCardIndex)

\* the close button of the history popover
CloseHistory ==
  /\ historyShown /\ isHistoryOpen
  /\ isHistoryOpen' = FALSE
  /\ UNCHANGED <<query, contextPapers, searchHistory, state, activeTab,
                 viewMode, pending, calls>>
  /\ lastEvent' = Event("CloseHistory", Null, <<>>)
  /\ UNCHANGED suggestCall
  /\ UNCHANGED suggestKept
  /\ renderGraph
  /\ renderList(currentCardIndex)

\* an entry of the history popover (rendered while loading too)
RestoreHistory(k) ==
  /\ historyShown /\ isHistoryOpen
  /\ k \in 1..Len(searchHistory)
  /\ callBudget
  /\ handleRestoreHistory(searchHistory[k])
  /\ lastEvent' = Event("RestoreHistory", Null, <<>>)
  /\ UNCHANGED suggestCall
  /\ renderGraph
  /\ renderApp(currentCardIndex,
               effectTimer(Len(searchHistory[k]) > 0 \/ skipSuggestionFetch))

\* the two tab buttons
SetActiveTab(t) ==
  /\ resultsShown
  /\ activeTab' = t
  /\ UNCHANGED <<query, contextPapers, searchHistory, isHistoryOpen, state,
                 viewMode, pending, calls>>
  /\ lastEvent' = Event("SetActiveTab", Null, <<>>)
  /\ UNCHANGED suggestCall
  /\ UNCHANGED suggestKept
  /\ renderGraph
  /\ renderList(currentCardIndex)

\* the two view toggle buttons
SetViewMode(m) ==
  /\ resultsShown
  /\ viewMode' = m
  /\ UNCHANGED <<query, contextPapers, searchHistory, isHistoryOpen, state,
                 activeTab, pending, calls>>
  /\ lastEvent' = Event("SetViewMode", Null, <<>>)
  /\ UNCHANGED suggestCall
  /\ UNCHANGED suggestKept
  /\ renderGraph
  /\ renderList(currentCardIndex)

\* An async function whose await ends after the tree was unmounted goes
\* on all the same; React ignores the setState calls it makes, so that
\* nothing of the page changes.
unmountedKept ==
  /\ UNCHANGED <<query, contextPapers, searchHistory, isHistoryOpen, state,
                 activeTab, viewMode, calls>>
  /\ UNCHANGED <<graphVars, layoutVars, effectVars, pointerOver, listVars>>
  /\ UNCHANGED <<suggestKept, debounceTimer>>

\* the remote call of an analyzePaper call answers with the JSON text of
\* the payload r; calls may settle in any order
AnalysisResolves(c, r) ==
  /\ c \in pending
  /\ pending' = pending \ {c}
  /\ lastEvent' = Event("AnalysisResolves", Null, <<>>)
  /\ UNCHANGED suggestCall
  /\ IF renderThrew
     THEN unmountedKept
     ELSE /\ executeSearchSettled(c, analyzePaper(JsonText(r)))
          /\ UNCHANGED <<query, contextPapers, searchHistory, isHistoryOpen,
                         activeTab, viewMode, calls>>
          /\ UNCHANGED suggestKept
          /\ renderGraph
          /\ renderList(currentCardIndex)

\* the remote call of an analyzePaper call fails in the way o
AnalysisRejects(c, o) ==
  /\ c \in pending
  /\ o \in RemoteFailures
  /\ pending' = pending \ {c}
  /\ lastEvent' = Event("AnalysisRejects", Null, <<>>)
  /\ UNCHANGED suggestCall
  /\ IF renderThrew
     THEN unmountedKept
     ELSE /\ executeSearchSettled(c, analyzePaper(o))
          /\ UNCHANGED <<query, contextPapers, searchHistory, isHistoryOpen,
                         activeTab, viewMode, calls>>
          /\ UNCHANGED suggestKept
          /\ renderGraph
          /\ renderList(currentCardIndex)

\* the list view was rendered with a card: its buttons, dots and touch
\* handlers are there
listRendered == listShown /\ activeCard # Null /\ ~renderThrew

\* handleNextCard and handlePrevCard: the new currentCardIndex
handleNextCard ==
  IF currentCardIndex < Len(papersToShow) - 1
  THEN currentCardIndex + 1 ELSE currentCardIndex

handlePrevCard ==
  IF currentCardIndex > 0 THEN currentCardIndex - 1 ELSE currentCardIndex

\* the next arrow, or a swipe to the left (onTouchEnd)
NextCard ==
  /\ listRendered
  /\ UNCHANGED appVars
  /\ lastEvent' = Event("NextCard", Null, <<>>)
  /\ UNCHANGED suggestCall
  /\ UNCHANGED suggestKept
  /\ renderGraph
  /\ renderList(handleNextCard)

\* the previous arrow, or a swipe to the right (onTouchEnd)
PrevCard ==
  /\ listRendered
  /\ UNCHANGED appVars
  /\ lastEvent' = Event("PrevCard", Null, <<>>)
  /\ UNCHANGED suggestCall
  /\ UNCHANGED suggestKept
  /\ renderGraph
  /\ renderList(handlePrevCard)

\* pagination dot i: setCurrentCardIndex(i)
GoToCard(i) ==
  /\ listRendered /\ i \in resultIndices
  /\ UNCHANGED appVars
  /\ lastEvent' = Event("GoToCard", Num(i), <<>>)
  /\ UNCHANGED suggestCall
  /\ UNCHANGED suggestKept
  /\ renderGraph
  /\ renderList(i)

\* the Add button floating on the card
CardAdd ==
  /\ listRendered
  /\ hasTitle(contextPapers, resultPaper(currentCardIndex).title) \/ callBudget
  /\ handleAddToContext(resultPaper(currentCardIndex))
  /\ lastEvent' = Event("CardAdd", Num(currentCardIndex), <<>>)
  /\ UNCHANGED suggestCall
  /\ UNCHANGED suggestKept
  /\ renderGraph
  /\ renderList(currentCardIndex)

\* a suggestion of the dropdown: handleSelectSuggestion(suggestions[k])
SelectSuggestion(k) ==
  /\ dropdownShown /\ k \in 1..Len(suggestions)
  /\ query' = suggestions[k]
  /\ queryEffect(TRUE)
  /\ querySelected' = TRUE
  /\ suggestionsCleared
  /\ UNCHANGED <<contextPapers, searchHistory, isHistoryOpen, state,
                 activeTab, viewMode, pending, calls>>
  /\ lastEvent' = Event("SelectSuggestion", Null, <<>>)
  /\ UNCHANGED suggestCall
  /\ renderGraph
  /\ renderApp(currentCardIndex, effectTimer(TRUE))

\* <input onFocus>
FocusInput ==
  /\ showSuggestions' =
       IF Len(suggestions) > 0 /\ Len(query) >= 3 THEN TRUE
       ELSE showSuggestions
  /\ UNCHANGED <<suggestions, isFetchingSuggestions, suggestFetches,
                 skipSuggestionFetch, querySelected>>
  /\ UNCHANGED appVars
  /\ lastEvent' = Event("FocusInput", Null, <<>>)
  /\ UNCHANGED suggestCall
  /\ renderGraph
  /\ renderList(currentCardIndex)

\* the debounce timer fires, 600 ms after the effect that set it: its
\* callback, up to the await, with the query of that effect's render
TimerFires ==
  /\ debounceTimer # Null
  /\ IF Len(trim(debounceTimer[1])) >= 3
     THEN /\ Len(suggestFetches) < MaxFetches
          /\ isFetchingSuggestions' = TRUE
          /\ suggestFetches' = Append(suggestFetches, debounceTimer[1])
          /\ UNCHANGED <<suggestions, showSuggestions>>
     ELSE /\ suggestions' = <<>>
          /\ showSuggestions' = FALSE
          /\ UNCHANGED <<isFetchingSuggestions, suggestFetches>>
  /\ UNCHANGED <<skipSuggestionFetch, querySelected>>
  /\ UNCHANGED appVars
  /\ lastEvent' = Event("TimerFires", Null, <<>>)
  /\ UNCHANGED suggestCall
  /\ renderGraph
  /\ renderApp(currentCardIndex, Null)

\* the sequence without its k-th element
removeAt(seq, k) == SubSeq(seq, 1, k - 1) \o SubSeq(seq, k + 1, Len(seq))

\* the timer callback after its await: the k-th getPaperSuggestions call in
\* flight ends, its remote call having ended with `outcome`; fetches may
\* end in any order
SuggestionsArrive(k, outcome) ==
  /\ k \in 1..Len(suggestFetches)
  /\ \E call \in {getPaperSuggestions(suggestFetches[k], outcome)} :
       /\ IF call.result.threw \/ renderThrew
          THEN UNCHANGED <<suggestions, showSuggestions>>
          ELSE /\ suggestions' = call.result.value
               /\ showSuggestions' = TRUE
       /\ suggestCall' =
            Some([query |-> suggestFetches[k],
                  remote |-> IF call.called THEN Some(outcome) ELSE Null,
                  called |-> call.called,
                  result |-> call.result])
  /\ suggestFetches' = removeAt(suggestFetches, k)
  /\ UNCHANGED <<skipSuggestionFetch, querySelected>>
  /\ UNCHANGED appVars
  /\ lastEvent' = Event("SuggestionsArrive", Null, <<>>)
  /\ IF renderThrew
     THEN /\ UNCHANGED <<graphVars, layoutVars, effectVars, pointerOver>>
          /\ UNCHANGED <<listVars, isFetchingSuggestions, debounceTimer>>
     ELSE /\ isFetchingSuggestions' = FALSE
          /\ renderGraph
          /\ renderList(currentCardIndex)

\* a call of getPaperSuggestions: the arguments are kept with the result,
\* the outcome of the remote call only if the call was made
GetPaperSuggestions(q, outcome) ==
  /\ suggestCall' =
       Some([query |-> q,
             remote |-> IF getPaperSuggestions(q, outcome).called
                        THEN Some(outcome) ELSE Null,
             called |-> getPaperSuggestions(q, outcome).called,
             result |-> getPaperSuggestions(q, outcome).result])
  /\ lastEvent' = Event("GetPaperSuggestions", Null, <<>>)
  /\ UNCHANGED <<appVars, graphVars, layoutVars, effectVars, pointerOver>>
  /\ UNCHANGED listVars
  /\ UNCHANGED suggestVars

---------------------------------------------------------------------------
(* GraphView: nodes *)

\* clearSelection that forgets setSelectedPaper(null)
clearSelection_KeepsPaper ==
  /\ activeNodeId' = Null
  /\ UNCHANGED selectedPaper

clearSelection ==
  /\ activeNodeId' = Null
  /\ selectedPaper' = Null

\* the root node's onDoubleClick without its rootPapers.length guard
rootPivots_Always == TRUE

\* the guard of the root node's onDoubleClick
rootPivots == Len(contextPapers) > 1

---------------------------------------------------------------------------
(* GraphView: node sizes.  A quotient is kept as the exact fraction        *)
(* num / den.                                                              *)

\* radius = 25 + relativeStrength * 30
RadiusBase == 25
RadiusSpan == 30
\* displayRadius = node.radius + 5 for a hovered or active node
RadiusGrow == 5

\* animatedNodes: the layout nodes with score, relativeStrength, radius and
\* the numeric id (the drifting x, y are left out)
animatedNodes ==
  [k \in 1..Len(nodes.value) |->
     LET paper == nodes.value[k].paper
         memo == stats.value[1]
         score == falsy(paper.relevanceScore)
     IN  [angle |-> nodes.value[k].angle,
          distance |-> nodes.value[k].distance,
          paper |-> paper,
          score |-> score,
          relativeStrength |-> [num |-> score - memo.min, den |-> memo.range],
          radius |-> [num |-> RadiusBase * memo.range
                                + (score - memo.min) * RadiusSpan,
                      den |-> memo.range],
          id |-> resultId(k - 1)]]

\* a displayRadius that grows for the hovered node only
displayRadius_HoverOnly(node) ==
  IF hoveredId = node.id
  THEN [num |-> node.radius.num + RadiusGrow * node.radius.den,
        den |-> node.radius.den]
  ELSE node.radius

\* renderResultNode: displayRadius
displayRadius(node) ==
  IF hoveredId = node.id \/ activeNodeId = node.id
  THEN [num |-> node.radius.num + RadiusGrow * node.radius.den,
        den |-> node.radius.den]
  ELSE node.radius

---------------------------------------------------------------------------
(* GraphView: the root cluster.  Offsets are kept in thousandths of a      *)
(* pixel, an angle in degrees; Math.cos and Math.sin are rounded to        *)
(* thousandths.                                                            *)

\* 1000 * cos of 0, 6, 12, ..., 90 degrees
CosTable ==
  <<1000, 995, 978, 951, 914, 866, 809, 743, 669, 588, 500, 407, 309, 208,
    105, 0>>

\* Math.cos and Math.sin of a multiple of 6 degrees, in thousandths
Cos(deg) ==
  LET d == deg % 360
  IN  IF d <= 90 THEN CosTable[(d \div 6) + 1]
      ELSE IF d <= 180 THEN -CosTable[((180 - d) \div 6) + 1]
      ELSE IF d <= 270 THEN -CosTable[((d - 180) \div 6) + 1]
      ELSE CosTable[((360 - d) \div 6) + 1]
Sin(deg) == Cos(deg + 270)

\* ox = (i === 0 ? -25 : 25) for two roots
PairOffset == 25
\* Math.cos(angle) * 30, Math.sin(angle) * 30 for more than two
ClusterRadius == 30

\* (i / count) * Math.PI * 2 in degrees; up to six roots (and for every
\* count that divides 360) a whole number
rootAngle(i, count) == (360 * i) \div count

\* a placer that puts two roots on the circle as well
rootNodes_NoPair(rootPapers) ==
  LET count == Len(rootPapers)
  IN  [k \in 1..count |->
         [paper |-> rootPapers[k],
          ox |-> IF count >= 2
                 THEN Cos(rootAngle(k - 1, count)) * ClusterRadius
                 ELSE 0,
          oy |-> IF count >= 2
                 THEN Sin(rootAngle(k - 1, count)) * ClusterRadius
                 ELSE 0,
          id |-> rootId(k - 1)]]

rootNodes(rootPapers) ==
  LET count == Len(rootPapers)
  IN  [k \in 1..count |->
         [paper |-> rootPapers[k],
          ox |-> IF count = 2
                 THEN (IF k - 1 = 0 THEN -PairOffset ELSE PairOffset) * 1000
                 ELSE IF count > 2
                 THEN Cos(rootAngle(k - 1, count)) * ClusterRadius
                 ELSE 0,
          oy |-> IF count > 2
                 THEN Sin(rootAngle(k - 1, count)) * ClusterRadius
                 ELSE 0,
          id |-> rootId(k - 1)]]

---------------------------------------------------------------------------
(* GraphView: what a render shows *)

\* the ids of rootNodes and of animatedNodes, in array order
rootNodeIds == [k \in 1..Len(contextPapers) |-> rootId(k - 1)]
resultNodeIds == [k \in 1..Len(papersToShow) |-> resultId(k - 1)]

isActive(id) == activeNodeId = id
isHovered(id) == hoveredId = id

\* a menu that opens for the active node only
showMenu_ActiveOnly(id) == isActive(id)

\* renderRootNode / renderResultNode: const showMenu = isActive || isHovered
showMenu(id) == isActive(id) \/ isHovered(id)

\* a filter that looks at activeNodeId only
inactiveResults_IgnoresHover ==
  SelectSeq(resultNodeIds, LAMBDA id : id # activeNodeId)

inactiveRoots ==
  SelectSeq(rootNodeIds, LAMBDA id : id # activeNodeId /\ id # hoveredId)
activeRoots ==
  SelectSeq(rootNodeIds, LAMBDA id : id = activeNodeId \/ id = hoveredId)
inactiveResults ==
  SelectSeq(resultNodeIds, LAMBDA id : id # activeNodeId /\ id # hoveredId)
activeResults ==
  SelectSeq(resultNodeIds, LAMBDA id : id = activeNodeId \/ id = hoveredId)

\* the node layers of the <svg>, bottom first (layers 2 to 5; layer 1 holds
\* the edges)
layers == <<inactiveRoots, inactiveResults, activeResults, activeRoots>>

\* the node elements in document order: a later element is painted above
\* an earlier one
paintOrder == inactiveRoots \o inactiveResults \o activeResults \o activeRoots

---------------------------------------------------------------------------
(* GraphView: events.  Node and button handlers call e.stopPropagation(),  *)
(* so the container's onClick (clearSelection) does not run for them.       *)

RootMouseEnter(i) ==
  /\ graphMounted /\ i \in rootIndices
  /\ rootId(i) \notin pointerOver /\ Cardinality(pointerOver) < MaxOver
  /\ hoveredId' = rootId(i)
  /\ UNCHANGED <<selectedPaper, activeNodeId, dimensions, time>>
  /\ UNCHANGED appVars
  /\ pointerOver' = pointerOver \cup {rootId(i)}
  /\ lastEvent' = Event("RootMouseEnter", rootId(i), <<>>)
  /\ UNCHANGED suggestCall
  /\ UNCHANGED suggestVars
  /\ UNCHANGED listVars
  /\ UNCHANGED effectVars
  /\ useMemoNodes
  /\ useMemoScoreStats

RootMouseLeave(i) ==
  /\ graphMounted /\ i \in rootIndices
  /\ rootId(i) \in pointerOver
  /\ hoveredId' = Null
  /\ UNCHANGED <<selectedPaper, activeNodeId, dimensions, time>>
  /\ UNCHANGED appVars
  /\ pointerOver' = pointerOver \ {rootId(i)}
  /\ lastEvent' = Event("RootMouseLeave", rootId(i), <<>>)
  /\ UNCHANGED suggestCall
  /\ UNCHANGED suggestVars
  /\ UNCHANGED listVars
  /\ UNCHANGED effectVars
  /\ useMemoNodes
  /\ useMemoScoreStats

RootClick(i) ==
  /\ graphMounted /\ i \in rootIndices
  /\ activeNodeId' = rootId(i)
  /\ UNCHANGED <<selectedPaper, hoveredId, dimensions, time>>
  /\ UNCHANGED <<appVars, pointerOver>>
  /\ lastEvent' = Event("RootClick", rootId(i), <<>>)
  /\ UNCHANGED suggestCall
  /\ UNCHANGED suggestVars
  /\ UNCHANGED listVars
  /\ UNCHANGED effectVars
  /\ useMemoNodes
  /\ useMemoScoreStats

RootDoubleClick(i) ==
  /\ graphMounted /\ i \in rootIndices
  /\ IF rootPivots
     THEN /\ callBudget
          /\ handleNewSearch(rootPaper(i))
          /\ lastEvent' = Event("RootDoubleClick", rootId(i), <<rootPaper(i)>>)
          /\ UNCHANGED suggestCall
     ELSE /\ UNCHANGED appVars
          /\ lastEvent' = Event("RootDoubleClick", rootId(i), <<>>)
          /\ UNCHANGED suggestCall
          /\ UNCHANGED suggestKept
  /\ renderGraph
  /\ renderApp(currentCardIndex, effectTimer(TRUE))

\* the Info button of a root node's menu
RootInfo(i) ==
  /\ graphMounted /\ i \in rootIndices
  /\ selectedPaper' = Some(rootPaper(i))
  /\ UNCHANGED <<activeNodeId, hoveredId, dimensions, time>>
  /\ UNCHANGED <<appVars, pointerOver>>
  /\ lastEvent' = Event("RootInfo", rootId(i), <<>>)
  /\ UNCHANGED suggestCall
  /\ UNCHANGED suggestVars
  /\ UNCHANGED listVars
  /\ UNCHANGED effectVars
  /\ useMemoNodes
  /\ useMemoScoreStats

ResultMouseEnter(i) ==
  /\ graphMounted /\ i \in resultIndices
  /\ resultId(i) \notin pointerOver /\ Cardinality(pointerOver) < MaxOver
  /\ hoveredId' = resultId(i)
  /\ UNCHANGED <<selectedPaper, activeNodeId, dimensions, time>>
  /\ UNCHANGED appVars
  /\ pointerOver' = pointerOver \cup {resultId(i)}
  /\ lastEvent' = Event("ResultMouseEnter", resultId(i), <<>>)
  /\ UNCHANGED suggestCall
  /\ UNCHANGED suggestVars
  /\ UNCHANGED listVars
  /\ UNCHANGED effectVars
  /\ useMemoNodes
  /\ useMemoScoreStats

\* onMouseLeave that also deactivates the node
ResultMouseLeave_ClearsActive(i) ==
  /\ graphMounted /\ i \in resultIndices
  /\ resultId(i) \in pointerOver
  /\ hoveredId' = Null
  /\ activeNodeId' = Null
  /\ UNCHANGED <<selectedPaper, dimensions, time>>
  /\ UNCHANGED appVars
  /\ pointerOver' = pointerOver \ {resultId(i)}
  /\ lastEvent' = Event("ResultMouseLeave", resultId(i), <<>>)
  /\ UNCHANGED suggestCall
  /\ UNCHANGED suggestVars
  /\ UNCHANGED listVars
  /\ UNCHANGED effectVars
  /\ useMemoNodes
  /\ useMemoScoreStats

ResultMouseLeave(i) ==
  /\ graphMounted /\ i \in resultIndices
  /\ resultId(i) \in pointerOver
  /\ hoveredId' = Null
  /\ UNCHANGED <<selectedPaper, activeNodeId, dimensions, time>>
  /\ UNCHANGED appVars
  /\ pointerOver' = pointerOver \ {resultId(i)}
  /\ lastEvent' = Event("ResultMouseLeave", resultId(i), <<>>)
  /\ UNCHANGED suggestCall
  /\ UNCHANGED suggestVars
  /\ UNCHANGED listVars
  /\ UNCHANGED effectVars
  /\ useMemoNodes
  /\ useMemoScoreStats

ResultClick(i) ==
  /\ graphMounted /\ i \in resultIndices
  /\ activeNodeId' = resultId(i)
  /\ UNCHANGED <<selectedPaper, hoveredId, dimensions, time>>
  /\ UNCHANGED <<appVars, pointerOver>>
  /\ lastEvent' = Event("ResultClick", resultId(i), <<>>)
  /\ UNCHANGED suggestCall
  /\ UNCHANGED suggestVars
  /\ UNCHANGED listVars
  /\ UNCHANGED effectVars
  /\ useMemoNodes
  /\ useMemoScoreStats

ResultDoubleClick(i) ==
  /\ graphMounted /\ i \in resultIndices
  /\ callBudget
  /\ handleNewSearch(resultPaper(i))
  /\ lastEvent' = Event("ResultDoubleClick", resultId(i), <<resultPaper(i)>>)
  /\ UNCHANGED suggestCall
  /\ renderGraph
  /\ renderApp(currentCardIndex, effectTimer(TRUE))

\* the Info button of a result node's menu
ResultInfo(i) ==
  /\ graphMounted /\ i \in resultIndices
  /\ selectedPaper' = Some(resultPaper(i))
  /\ UNCHANGED <<activeNodeId, hoveredId, dimensions, time>>
  /\ UNCHANGED <<appVars, pointerOver>>
  /\ lastEvent' = Event("ResultInfo", resultId(i), <<>>)
  /\ UNCHANGED suggestCall
  /\ UNCHANGED suggestVars
  /\ UNCHANGED listVars
  /\ UNCHANGED effectVars
  /\ useMemoNodes
  /\ useMemoScoreStats

\* the Plus button of a result node's menu
ResultAdd(i) ==
  /\ graphMounted /\ i \in resultIndices
  /\ hasTitle(contextPapers, resultPaper(i).title) \/ callBudget
  /\ handleAddToContext(resultPaper(i))
  /\ lastEvent' = Event("ResultAdd", resultId(i), <<>>)
  /\ UNCHANGED suggestCall
  /\ UNCHANGED suggestKept
  /\ renderGraph
  /\ renderList(currentCardIndex)

\* a click that reaches the container's onClick
BackgroundClick ==
  /\ graphMounted
  /\ clearSelection
  /\ UNCHANGED <<hoveredId, dimensions, time>>
  /\ UNCHANGED <<appVars, pointerOver>>
  /\ lastEvent' = Event("BackgroundClick", Null, <<>>)
  /\ UNCHANGED suggestCall
  /\ UNCHANGED suggestVars
  /\ UNCHANGED listVars
  /\ UNCHANGED effectVars
  /\ useMemoNodes
  /\ useMemoScoreStats

\* the close button without e.stopPropagation(): the click bubbles to the
\* container's onClick
DismissClick_Bubbles ==
  /\ graphMounted /\ selectedPaper # Null
  /\ clearSelection
  /\ UNCHANGED <<hoveredId, dimensions, time>>
  /\ UNCHANGED <<appVars, pointerOver>>
  /\ lastEvent' = Event("DismissClick", Null, <<>>)
  /\ UNCHANGED suggestCall
  /\ UNCHANGED suggestVars
  /\ UNCHANGED listVars
  /\ UNCHANGED effectVars
  /\ useMemoNodes
  /\ useMemoScoreStats

\* the close button of the detail overlay, rendered while a paper is selected
DismissClick ==
  /\ graphMounted /\ selectedPaper # Null
  /\ selectedPaper' = Null
  /\ UNCHANGED <<activeNodeId, hoveredId, dimensions, time>>
  /\ UNCHANGED <<appVars, pointerOver>>
  /\ lastEvent' = Event("DismissClick", Null, <<>>)
  /\ UNCHANGED suggestCall
  /\ UNCHANGED suggestVars
  /\ UNCHANGED listVars
  /\ UNCHANGED effectVars
  /\ useMemoNodes
  /\ useMemoScoreStats

\* a click inside the detail overlay other than on its dismiss button: on
\* the card of the selected paper or, with no paper selected, on the hint
\* shown in its place.  Neither stops the event, which bubbles to the
\* container, whose onClick is clearSelection.
OverlayClick ==
  /\ graphMounted
  /\ clearSelection
  /\ UNCHANGED <<hoveredId, dimensions, time>>
  /\ UNCHANGED <<appVars, pointerOver>>
  /\ lastEvent' = Event("OverlayClick", Null, <<>>)
  /\ UNCHANGED suggestCall
  /\ UNCHANGED suggestVars
  /\ UNCHANGED listVars
  /\ UNCHANGED effectVars
  /\ useMemoNodes
  /\ useMemoScoreStats

\* animate that does not request the next frame
animate_Once(r) ==
  /\ IF r.live THEN time' = time + TimeStep ELSE UNCHANGED time
  /\ UNCHANGED animationFrame
  /\ frameRequests' = frameRequests \ {r}

\* animate, called by the browser for the request r it takes off its list:
\* setTime(t => t + 0.005), which is ignored for an instance that is no
\* longer mounted, and animationFrame = requestAnimationFrame(animate)
animate(r) ==
  /\ IF r.live
     THEN /\ time' = time + TimeStep
          /\ animationFrame' = Some(r.handle + 1)
     ELSE UNCHANGED <<time, animationFrame>>
  /\ frameRequests' =
       (frameRequests \ {r}) \cup {FrameRequest(r.handle + 1, r.live)}

\* a frame that also clears the hover
Tick_ClearsHover ==
  /\ \E r \in frameRequests : r.handle <= MaxTicks /\ animate(r)
  /\ hoveredId' = Null
  /\ UNCHANGED <<selectedPaper, activeNodeId, dimensions, observing>>
  /\ UNCHANGED <<appVars, pointerOver>>
  /\ lastEvent' = Event("Tick", Null, <<>>)
  /\ UNCHANGED suggestCall
  /\ UNCHANGED suggestVars
  /\ UNCHANGED listVars
  /\ useMemoNodes
  /\ useMemoScoreStats

\* one animation frame: the browser runs a pending callback (at most
\* MaxTicks of one instance)
Tick ==
  /\ \E r \in frameRequests : r.handle <= MaxTicks /\ animate(r)
  /\ UNCHANGED <<selectedPaper, activeNodeId, hoveredId, dimensions, observing>>
  /\ UNCHANGED <<appVars, pointerOver>>
  /\ lastEvent' = Event("Tick", Null, <<>>)
  /\ UNCHANGED suggestCall
  /\ UNCHANGED suggestVars
  /\ UNCHANGED listVars
  /\ useMemoNodes
  /\ useMemoScoreStats

\* a ResizeObserver callback that restarts the animation clock
Resize_RestartsClock(w) ==
  /\ observing
  /\ dimensions' = [width |-> w, height |-> 600]
  /\ time' = 0
  /\ UNCHANGED <<selectedPaper, activeNodeId, hoveredId>>
  /\ UNCHANGED <<appVars, pointerOver>>
  /\ lastEvent' = Event("Resize", Num(w), <<>>)
  /\ UNCHANGED suggestCall
  /\ UNCHANGED suggestVars
  /\ UNCHANGED listVars
  /\ UNCHANGED effectVars
  /\ useMemoNodes
  /\ useMemoScoreStats

\* a ResizeObserver callback that keeps the container square
Resize_Square(w) ==
  /\ observing
  /\ dimensions' = [width |-> w, height |-> w]
  /\ UNCHANGED <<selectedPaper, activeNodeId, hoveredId, time>>
  /\ UNCHANGED <<appVars, pointerOver>>
  /\ lastEvent' = Event("Resize", Num(w), <<>>)
  /\ UNCHANGED suggestCall
  /\ UNCHANGED suggestVars
  /\ UNCHANGED listVars
  /\ UNCHANGED effectVars
  /\ useMemoNodes
  /\ useMemoScoreStats

\* one ResizeObserver callback, the container being w wide: setDimensions,
\* which is ignored for an instance that is no longer mounted.  The event
\* records the reported width in its id field.
Resize(w) ==
  /\ observing
  /\ dimensions' = IF graphMounted THEN [width |-> w, height |-> 600]
                   ELSE dimensions
  /\ UNCHANGED <<selectedPaper, activeNodeId, hoveredId, time>>
  /\ UNCHANGED <<appVars, pointerOver>>
  /\ lastEvent' = Event("Resize", Num(w), <<>>)
  /\ UNCHANGED suggestCall
  /\ UNCHANGED suggestVars
  /\ UNCHANGED listVars
  /\ UNCHANGED effectVars
  /\ useMemoNodes
  /\ useMemoScoreStats

---------------------------------------------------------------------------
(* The application *)

Init ==
  /\ query = <<>>
  /\ contextPapers = <<>>
  /\ searchHistory = <<>>
  /\ isHistoryOpen = FALSE
  /\ state = [isLoading |-> FALSE, error |-> Null, data |-> Null]
  /\ activeTab = "CORRELATED"
  /\ viewMode = "GRAPH"
  /\ pending = {}
  /\ calls = 0
  /\ selectedPaper = Null
  /\ activeNodeId = Null
  /\ hoveredId = Null
  /\ dimensions = [width |-> 600, height |-> 600]
  /\ time = 0
  /\ nodes = NoNodes
  /\ stats = NoStats
  /\ rng = Seed(SteadyCycle)
  /\ animationFrame = Null
  /\ observing = FALSE
  /\ frameRequests = {}
  /\ pointerOver = {}
  /\ currentCardIndex = 0
  /\ activeCard = Null
  /\ suggestions = <<>>
  /\ showSuggestions = FALSE
  /\ isFetchingSuggestions = FALSE
  /\ skipSuggestionFetch = FALSE
  /\ debounceTimer = Some(<<>>)
  /\ suggestFetches = <<>>
  /\ querySelected = FALSE
  /\ suggestCall = Null
  /\ lastEvent = Event("Init", Null, <<>>)

\* node indices offered to the events; the guards keep the rendered ones
NodeIndices == 0..2

\* App events: the search input, the history, the tabs, the view toggle and
\* the settling of analyzePaper calls
SearchNext ==
  \/ \E q \in QueryInputs : ChangeQuery(q)
  \/ SubmitSearch
  \/ LogoClick
  \/ ToggleHistory
  \/ CloseHistory
  \/ \E k \in 1..HistoryMax : RestoreHistory(k)
  \/ \E t \in {"CORRELATED", "AUTHOR_CONTEXT"} : SetActiveTab(t)
  \/ \E m \in {"LIST", "GRAPH"} : SetViewMode(m)
  \/ \E c \in pending, r \in Responses : AnalysisResolves(c, r)
  \/ \E c \in pending : AnalysisRejects(c, RemoteError)

\* GraphView events that call back into App (onNewSearch, onAddToContext)
ContextNext ==
  \/ \E i \in NodeIndices : RootDoubleClick(i)
  \/ \E i \in NodeIndices : ResultDoubleClick(i)
  \/ \E i \in NodeIndices : ResultAdd(i)

\* GraphView click events on nodes, menus, overlay and background
SelectNext ==
  \/ \E i \in NodeIndices : RootClick(i)
  \/ \E i \in NodeIndices : RootInfo(i)
  \/ \E i \in NodeIndices : ResultClick(i)
  \/ \E i \in NodeIndices : ResultInfo(i)
  \/ BackgroundClick
  \/ DismissClick
  \/ OverlayClick

\* GraphView pointer events
HoverNext ==
  \/ \E i \in NodeIndices : RootMouseEnter(i)
  \/ \E i \in NodeIndices : RootMouseLeave(i)
  \/ \E i \in NodeIndices : ResultMouseEnter(i)
  \/ \E i \in NodeIndices : ResultMouseLeave(i)

\* GraphView frame and resize callbacks
FrameNext ==
  \/ Tick
  \/ \E w \in Widths : Resize(w)

\* App events of SearchNext: the way a remote call fails makes no difference
\* to the App, so one way stands for all; NextRemote takes every way.
\* The application driven through searches, context changes and clicks.
Next == SearchNext \/ ContextNext \/ SelectNext

Spec == Init /\ [][Next]_vars

\* The search context alone: searches, history, Add and pivots.
NextApp == SearchNext \/ ContextNext

SpecApp == Init /\ [][NextApp]_vars

\* Searches from the input and the history, the tabs and the clicks in the
\* graph view: the result list on display changes by a tab switch or by a
\* call that settles while the results of an earlier one are shown.
NextSession ==
  \/ \E q \in QueryInputs : ChangeQuery(q)
  \/ SubmitSearch
  \/ ToggleHistory
  \/ \E k \in 1..HistoryMax : RestoreHistory(k)
  \/ \E t \in {"CORRELATED", "AUTHOR_CONTEXT"} : SetActiveTab(t)
  \/ \E c \in pending, r \in Responses : AnalysisResolves(c, r)
  \/ \E c \in pending : AnalysisRejects(c, RemoteError)
  \/ SelectNext

SpecSession == Init /\ [][NextSession]_vars

\* queries handed to getPaperSuggestions: the texts of letters and blanks
\* of up to MaxQueryLen characters
MaxQueryLen == 4
SuggestQueries == UNION {[1..n -> {"a", " "}] : n \in 0..MaxQueryLen}

\* answers of the remote service to a suggestion request
SuggestOutcomes ==
  RemoteFailures \cup {JsonText(<<>>), JsonText(<<TitleA, TitleF>>)}

\* The suggestion service by itself, over every query and every answer.
NextSuggest ==
  \E q \in SuggestQueries, o \in SuggestOutcomes : GetPaperSuggestions(q, o)

SpecSuggest == Init /\ [][NextSuggest]_vars

\* Searches from the input and the history against a remote service that
\* fails in every way.
NextRemote ==
  \/ \E q \in QueryInputs : ChangeQuery(q)
  \/ SubmitSearch
  \/ ToggleHistory
  \/ \E k \in 1..HistoryMax : RestoreHistory(k)
  \/ \E c \in pending, r \in Responses : AnalysisResolves(c, r)
  \/ \E c \in pending, o \in RemoteFailures : AnalysisRejects(c, o)

SpecRemote == Init /\ [][NextRemote]_vars

\* a title the user may type that reads like two titles joined by a bar
TitleAB == TitleA \o <<"|">> \o TitleB
HistoryQueries == {TitleA, TitleAB}

\* The search history: initial searches, Adds, pivots and restores.
NextHistory ==
  \/ \E q \in HistoryQueries : ChangeQuery(q)
  \/ SubmitSearch
  \/ ToggleHistory
  \/ \E k \in 1..HistoryMax : RestoreHistory(k)
  \/ \E c \in pending, r \in Responses : AnalysisResolves(c, r)
  \/ \E i \in NodeIndices : ResultAdd(i)
  \/ \E i \in NodeIndices : ResultDoubleClick(i)

SpecHistory == Init /\ [][NextHistory]_vars

\* list view events: the arrows and swipes, the dots and the card's Add
ListNext ==
  \/ NextCard
  \/ PrevCard
  \/ \E i \in NodeIndices : GoToCard(i)
  \/ CardAdd

---------------------------------------------------------------------------
(* The graph view, from the moment results are displayed *)

Root == Paper(TitleA, 100)

\* App states in which GraphView has just been mounted: after the search for
\* TitleA resolved (one root), after the first correlated paper was added
\* and that analysis resolved (two roots), after the second was added too
\* (three roots), each while the 600 ms timer of the typed query is still
\* pending.  Each is reachable under SpecApp (ReachConfig1..3).
Config1 ==
  [contextPapers |-> <<Root>>,
   searchHistory |-> << <<Root>> >>,
   data |-> [ref |-> 1, titles |-> <<TitleA>>,
             correlatedPapers |-> RespX.correlatedPapers,
             authorContextPapers |-> RespX.authorContextPapers]]
Config2 ==
  [contextPapers |-> <<Root, Paper(TitleB, 90)>>,
   searchHistory |-> << <<Root, Paper(TitleB, 90)>>, <<Root>> >>,
   data |-> [ref |-> 2, titles |-> <<TitleA, TitleB>>,
             correlatedPapers |-> RespX.correlatedPapers,
             authorContextPapers |-> RespX.authorContextPapers]]
Config3 ==
  [contextPapers |-> <<Root, Paper(TitleB, 90), Paper(TitleC, 30)>>,
   searchHistory |-> << <<Root, Paper(TitleB, 90), Paper(TitleC, 30)>>,
                        <<Root, Paper(TitleB, 90)>>, <<Root>> >>,
   data |-> [ref |-> 3, titles |-> <<TitleA, TitleB, TitleC>>,
             correlatedPapers |-> RespY.correlatedPapers,
             authorContextPapers |-> RespY.authorContextPapers]]

\* the layout a GraphView mounted in the current App state has sampled from
\* the generator state `seed`
mountedNodes(seed) ==
  [deps |-> Some(papersIdentity),
   value |-> generateNodes(papersToShow, <<>>, seed).generated]

InConfigSeeded(c, seed) ==
  /\ query = TitleA
  /\ contextPapers = c.contextPapers
  /\ searchHistory = c.searchHistory
  /\ isHistoryOpen = FALSE
  /\ state = [isLoading |-> FALSE, error |-> Null, data |-> Some(c.data)]
  /\ viewMode = "GRAPH"
  /\ activeTab = "CORRELATED"
  /\ pending = {}
  /\ calls = c.data.ref
  /\ selectedPaper = Null
  /\ activeNodeId = Null
  /\ hoveredId = Null
  /\ dimensions = [width |-> 600, height |-> 600]
  /\ time = TimeStep
  /\ nodes = mountedNodes(seed)
  /\ stats = [deps |-> Some(papersIdentity),
              value |-> Some(scoreStats(papersToShow))]
  /\ rng = generateNodes(papersToShow, <<>>, seed).rng
  /\ animationFrame = Some(1)
  /\ observing = TRUE
  /\ frameRequests = {FrameRequest(1, TRUE)}
  /\ pointerOver = {}
  /\ currentCardIndex = 0
  /\ activeCard = Null
  /\ suggestions = <<>>
  /\ showSuggestions = FALSE
  /\ isFetchingSuggestions = FALSE
  /\ skipSuggestionFetch = FALSE
  /\ debounceTimer = Some(query)
  /\ suggestFetches = <<>>
  /\ querySelected = FALSE
  /\ suggestCall = Null
  /\ lastEvent = Event("AnalysisResolves", Null, <<>>)

InConfig(c) == InConfigSeeded(c, Seed(SteadyCycle))

InitGraph == \E c \in {Config1, Config2, Config3} : InConfig(c)

NextGraph ==
  \/ ContextNext
  \/ SelectNext
  \/ HoverNext
  \/ FrameNext
  \/ \E t \in {"CORRELATED", "AUTHOR_CONTEXT"} : SetActiveTab(t)
  \/ \E m \in {"LIST", "GRAPH"} : SetViewMode(m)

SpecGraph == InitGraph /\ [][NextGraph]_vars

\* The graph view over a generator whose values differ from call to call,
\* so that a layout sampled again is another layout.
InitLayout == InConfigSeeded(Config1, Seed(RichCycle))

SpecLayout == InitLayout /\ [][NextGraph]_vars

\* The effects of the graph view: frames and resizes, between the events
\* that mount and unmount the view (the view toggle, a pivot) or change what
\* it shows (the tabs, the pointer, clicks and Info).  Config3 has an empty
\* author list.
InitFrames == InConfig(Config1) \/ InConfig(Config3)

NextFrames ==
  \/ FrameNext
  \/ \E t \in {"CORRELATED", "AUTHOR_CONTEXT"} : SetActiveTab(t)
  \/ \E m \in {"LIST", "GRAPH"} : SetViewMode(m)
  \/ \E i \in NodeIndices : RootMouseEnter(i)
  \/ \E i \in NodeIndices : RootMouseLeave(i)
  \/ \E i \in NodeIndices : RootClick(i)
  \/ \E i \in NodeIndices : ResultMouseEnter(i)
  \/ \E i \in NodeIndices : ResultInfo(i)
  \/ \E i \in NodeIndices : ResultDoubleClick(i)
  \/ BackgroundClick

SpecFrames == InitFrames /\ [][NextFrames]_vars

\* the browser keeps delivering frames: a pending callback is run
SpecFramesFair == InitFrames /\ [][NextFrames]_vars /\ WF_vars(Tick)

\* what the user may type while the autocomplete is watched
TypedQueries == {<<"A", "t">>, TitleA, TitleB}

\* suggestions the service may answer with
SuggestedTitles == <<TitleA, TitleF>>

\* The autocomplete while results are displayed: typing, the debounce
\* timer, suggestion fetches, the dropdown, and the pivots and restores
\* that write the query.
NextAutocomplete ==
  \/ \E q \in TypedQueries : ChangeQuery(q)
  \/ FocusInput
  \/ TimerFires
  \/ \E k \in 1..MaxFetches : SuggestionsArrive(k, RemoteError)
  \/ \E k \in 1..MaxFetches : SuggestionsArrive(k, JsonText(SuggestedTitles))
  \/ \E k \in 1..Len(SuggestedTitles) : SelectSuggestion(k)
  \/ ToggleHistory
  \/ \E k \in 1..HistoryMax : RestoreHistory(k)
  \/ \E i \in NodeIndices : ResultDoubleClick(i)

SpecAutocomplete == InConfig(Config1) /\ [][NextAutocomplete]_vars

\* The list view: the tabs, the view toggle, the cards, and the analysis an
\* Add from a card starts.
NextList ==
  \/ ListNext
  \/ \E t \in {"CORRELATED", "AUTHOR_CONTEXT"} : SetActiveTab(t)
  \/ \E m \in {"LIST", "GRAPH"} : SetViewMode(m)
  \/ \E c \in pending, r \in Responses : AnalysisResolves(c, r)
  \/ \E c \in pending : AnalysisRejects(c, RemoteError)

SpecList == InitGraph /\ [][NextList]_vars

---------------------------------------------------------------------------
(* The graph view as a function of its props: result lists over a set of   *)
(* scores, root lists of every length, and every generator                 *)

\* papers of one result list
MaxPapers == 3
\* papers of one ContextSet
MaxRoots == 5

\* a relevanceScore: missing, or a number of 0..100
ScoreValues == {Null, Some(0), Some(30), Some(90)}

AllTitles == <<TitleA, TitleB, TitleC, TitleD, TitleE, TitleF>>

\* the result list with the given scores
papersOf(scores) ==
  [k \in 1..Len(scores) |->
     [title |-> AllTitles[k + 1], relevanceScore |-> scores[k]]]

ScoreLists == UNION {[1..n -> ScoreValues] : n \in 0..MaxPapers}

\* a ContextSet of n papers, built by an initial search and n - 1 Adds
rootList(n) ==
  [k \in 1..n |-> IF k = 1 THEN Root ELSE Paper(AllTitles[k], 90)]

\* the App state that displays `papers` for the ContextSet of n papers
ViewConfig(n, papers) ==
  [contextPapers |-> rootList(n),
   searchHistory |->
     [k \in 1..(IF n < HistoryMax THEN n ELSE HistoryMax) |->
        rootList(n - k + 1)],
   data |-> [ref |-> n, titles |-> titlesOf(rootList(n)),
             correlatedPapers |-> papers,
             authorContextPapers |-> <<>>]]

InitView ==
  \/ \E scores \in ScoreLists :
       InConfigSeeded(ViewConfig(1, papersOf(scores)), Seed(SteadyCycle))
  \/ \E n \in 1..MaxPapers, seed \in Seeds :
       InConfigSeeded(ViewConfig(1, papersOf([k \in 1..n |-> Some(30)])), seed)
  \/ \E n \in 1..MaxRoots :
       InConfigSeeded(ViewConfig(n, RespX.correlatedPapers), Seed(SteadyCycle))

\* pointer and click events on the result nodes, which decide the displayed
\* radius
NextView ==
  \/ \E i \in NodeIndices : ResultMouseEnter(i)
  \/ \E i \in NodeIndices : ResultMouseLeave(i)
  \/ \E i \in NodeIndices : ResultClick(i)
  \/ BackgroundClick

SpecView == InitView /\ [][NextView]_vars

\* violated under SpecApp: the configurations of InitGraph are reachable
ReachConfig1 == ~InConfig(Config1)
ReachConfig2 == ~InConfig(Config2)
ReachConfig3 == ~InConfig(Config3)

---------------------------------------------------------------------------
(* Properties of the interaction state machine (checked under SpecGraph) *)

NodeClickOps == {"RootClick", "ResultClick"}
InfoOps == {"RootInfo", "ResultInfo"}
LeaveOps == {"RootMouseLeave", "ResultMouseLeave"}
EnterOps == {"RootMouseEnter", "ResultMouseEnter"}
DoubleClickOps == {"RootDoubleClick", "ResultDoubleClick"}

\* C1: a background click sets activeId and selectedPaper to null, and a
\* background click that directly follows a background click changes
\* nothing.
C1_BackgroundClickClears ==
  [][lastEvent'.op = "BackgroundClick" =>
       /\ activeNodeId' = Null
       /\ selectedPaper' = Null
       /\ lastEvent.op = "BackgroundClick" => vars' = vars]_vars

\* C1 witness: a background click has been handled with the pointer resting
\* on a node, and nothing is active or selected.
C1_Witness ==
  /\ lastEvent.op = "BackgroundClick"
  /\ hoveredId # Null
  /\ activeNodeId = Null
  /\ selectedPaper = Null

\* C2 as stated: a node click activates that node and leaves the selection
\* alone, and activeId changes only by a node click or a background click.
C2_ActiveChangesOnlyByClick ==
  [][/\ lastEvent'.op \in NodeClickOps =>
          activeNodeId' = lastEvent'.id /\ selectedPaper' = selectedPaper
     /\ activeNodeId' # activeNodeId =>
          lastEvent'.op \in NodeClickOps \cup {"BackgroundClick"}]_vars

\* C2 amended: a node click activates that node and leaves the selection
\* alone, and activeId changes only by a node click, a click that reaches
\* the container (on the background or inside the detail overlay), or the
\* unmounting of the graph view.
C2_ActiveChangesOnlyByClickOrUnmount ==
  [][/\ lastEvent'.op \in NodeClickOps =>
          activeNodeId' = lastEvent'.id /\ selectedPaper' = selectedPaper
     /\ activeNodeId' # activeNodeId =>
          \/ lastEvent'.op \in NodeClickOps \cup {"BackgroundClick", "OverlayClick"}
          \/ ~graphMounted' /\ activeNodeId' = Null]_vars

\* C2 witness: result node 0 is still active after the pointer left another
\* node, a frame was delivered and the container was resized.
C2_Witness ==
  /\ activeNodeId = resultId(0)
  /\ lastEvent = Event("ResultMouseLeave", resultId(1), <<>>)
  /\ time > TimeStep
  /\ dimensions.width # 600

\* C3 as stated: pointer-enter on a node makes it the hovered node, and
\* pointer-leave on a node clears hoveredId only if that node was the
\* hovered one.
C3_LeaveClearsOnlyOwnHover ==
  [][/\ lastEvent'.op \in EnterOps => hoveredId' = lastEvent'.id
     /\ lastEvent'.op \in LeaveOps =>
          hoveredId' = IF hoveredId = lastEvent'.id THEN Null ELSE hoveredId]_vars

\* C4: Info selects the node's paper, dismiss clears the selection, and
\* neither changes hoveredId or activeId.
C4_InfoAndDismissOnlySelect ==
  [][/\ \A i \in NodeIndices :
          /\ lastEvent' = Event("RootInfo", rootId(i), <<>>) =>
               selectedPaper' = Some(rootPaper(i))
          /\ lastEvent' = Event("ResultInfo", resultId(i), <<>>) =>
               selectedPaper' = Some(resultPaper(i))
     /\ lastEvent'.op = "DismissClick" => selectedPaper' = Null
     /\ lastEvent'.op \in InfoOps \cup {"DismissClick"} =>
          UNCHANGED <<hoveredId, activeNodeId>>]_vars

\* C4 witness: the overlay was dismissed while one node is active and
\* another one hovered.
C4_Witness ==
  /\ lastEvent.op = "DismissClick"
  /\ selectedPaper = Null
  /\ activeNodeId # Null
  /\ hoveredId # Null
  /\ hoveredId # activeNodeId

\* the effect of one onNewSearch(paper) call on the App
PivotedTo(paper) ==
  /\ lastEvent'.newSearch = <<paper>>
  /\ contextPapers' = <<paper>>
  /\ calls' = calls + 1
  /\ pending' = pending \cup {[ref |-> calls + 1, titles |-> <<paper.title>>]}

\* C5 as stated: a double click on any node, root or result, makes exactly
\* one pivot request carrying that node's paper.
C5_DoubleClickAlwaysPivots ==
  [][\A i \in NodeIndices :
       /\ lastEvent'.op = "RootDoubleClick" /\ lastEvent'.id = rootId(i) =>
            PivotedTo(rootPaper(i))
       /\ lastEvent'.op = "ResultDoubleClick" /\ lastEvent'.id = resultId(i) =>
            PivotedTo(resultPaper(i))]_vars

\* C5 amended: a double click on a result node, or on a root node when there
\* are at least two roots, makes exactly one pivot request carrying that
\* node's paper; a double click on the only root makes none.
C5_DoubleClickPivotsUnlessOnlyRoot ==
  [][\A i \in NodeIndices :
       /\ lastEvent'.op = "RootDoubleClick" /\ lastEvent'.id = rootId(i) =>
            IF Len(contextPapers) > 1
            THEN PivotedTo(rootPaper(i))
            ELSE lastEvent'.newSearch = <<>> /\ UNCHANGED appVars
       /\ lastEvent'.op = "ResultDoubleClick" /\ lastEvent'.id = resultId(i) =>
            PivotedTo(resultPaper(i))]_vars

\* C5 witness: the second of two roots was double-clicked; the pivot
\* request carried its paper and the analysis of that paper is loading.
C5_Witness ==
  /\ lastEvent = Event("RootDoubleClick", rootId(1), <<Paper(TitleB, 90)>>)
  /\ contextPapers = <<Paper(TitleB, 90)>>
  /\ state.isLoading

---------------------------------------------------------------------------
(* Properties of a render of the graph view (checked under SpecGraph) *)

\* the node is engaged: its id is the active or the hovered one
Engaged(id) == id = activeNodeId \/ id = hoveredId

RootIds == {rootId(i) : i \in rootIndices}
ResultIds == {resultId(i) : i \in resultIndices}

\* C11: in every state that shows the graph, the menu of every root node
\* and of every result node is visible if and only if the node's id is
\* hoveredId or activeId.
C11_MenuVisibleIffEngaged ==
  graphMounted =>
    /\ \A i \in rootIndices :
         showMenu(rootId(i)) <=>
           (rootId(i) = hoveredId \/ rootId(i) = activeNodeId)
    /\ \A i \in resultIndices :
         showMenu(resultId(i)) <=>
           (resultId(i) = hoveredId \/ resultId(i) = activeNodeId)

\* C11 witness: the root is hovered and shows its menu, result node 0 is
\* active and shows its menu, result node 1 is neither and shows none.
C11_Witness ==
  /\ graphMounted
  /\ hoveredId = rootId(0) /\ showMenu(rootId(0))
  /\ activeNodeId = resultId(0) /\ showMenu(resultId(0))
  /\ 1 \in resultIndices /\ ~showMenu(resultId(1))

\* the layers (1 = bottom .. 4 = top) of `ls` that paint the node
LayersOf(ls, id) ==
  {l \in 1..4 : \E k \in 1..Len(ls[l]) : ls[l][k] = id}

\* positions of the node in the paint order `po`
PaintedAt(po, id) == {k \in 1..Len(po) : po[k] = id}

\* C12: in every state that shows the graph each root and result node is
\* painted exactly once, in exactly one of the four layers inactive roots,
\* inactive results, engaged results, engaged roots (bottom to top); so no
\* node that is not engaged is painted above an engaged one, and an engaged
\* root is painted above every result.
C12_PaintedOnceInItsLayer ==
  graphMounted =>
    \A po \in {paintOrder}, ls \in {layers} :
      /\ Len(po) = Cardinality(RootIds \cup ResultIds)
      /\ \A id \in RootIds :
           /\ Cardinality(PaintedAt(po, id)) = 1
           /\ LayersOf(ls, id) = IF Engaged(id) THEN {4} ELSE {1}
      /\ \A id \in ResultIds :
           /\ Cardinality(PaintedAt(po, id)) = 1
           /\ LayersOf(ls, id) = IF Engaged(id) THEN {3} ELSE {2}
      /\ \A j, k \in 1..Len(po) :
           /\ Engaged(po[j]) /\ ~Engaged(po[k]) => k < j
           /\ po[j] \in RootIds /\ Engaged(po[j]) /\ po[k] \in ResultIds
                => k < j

\* C12 witness: with two roots and two results, one root and one result are
\* engaged; all four layers are in use.
C12_Witness ==
  /\ graphMounted
  /\ \A l \in 1..4 : Len(layers[l]) > 0

\* indices for which the two id namespaces are compared
MaxIndex == 11

\* C13: root ids and result ids are disjoint for every number of roots and
\* results, so no value of activeId or of hoveredId makes both a root node
\* and a result node active or hovered.
C13_IdNamespacesDisjoint ==
  /\ {rootId(i) : i \in 0..MaxIndex} \cap {resultId(j) : j \in 0..MaxIndex} = {}
  /\ graphMounted =>
       \A i \in rootIndices, j \in resultIndices :
         /\ ~(isActive(rootId(i)) /\ isActive(resultId(j)))
         /\ ~(isHovered(rootId(i)) /\ isHovered(resultId(j)))

\* C13 witness: root node 0 is active and result node 0 is hovered, two
\* nodes of the same index.
C13_Witness ==
  /\ graphMounted
  /\ isActive(rootId(0)) /\ ~isActive(resultId(0))
  /\ isHovered(resultId(0)) /\ ~isHovered(rootId(0))
  /\ 0 \in resultIndices

---------------------------------------------------------------------------
(* Properties of the layout memo (checked under SpecLayout) *)

\* events handled inside the graph view without a call back into App
LocalOps ==
  EnterOps \cup LeaveOps \cup NodeClickOps \cup InfoOps
    \cup {"BackgroundClick", "DismissClick", "Tick", "Resize"}

\* the step hands the graph view another array as `papers` than the one
\* the state before it holds
NewPapers ==
  IF state.data = Null \/ state'.data = Null THEN TRUE
  ELSE papersIdentity' # papersIdentity

\* C14 as stated: ticks, resizes, pointer events, clicks and Info / dismiss
\* leave the angle and distance of every layout node unchanged, and the
\* layout is sampled only when the identity of the result list changes.
C14_SampledOnlyForNewList ==
  [][/\ lastEvent'.op \in LocalOps => nodes' = nodes
     /\ graphMounted' /\ nodes' # nodes => NewPapers]_vars

\* C14 amended: ticks, resizes, pointer events, clicks and Info / dismiss
\* leave the angle and distance of every layout node unchanged, and the
\* layout is sampled only when the graph view is mounted or, while it stays
\* mounted, when the identity of the result list changes.
C14_SampledOnlyOnMountOrNewList ==
  [][/\ lastEvent'.op \in LocalOps => nodes' = nodes
     /\ graphMounted' /\ nodes' # nodes => ~graphMounted \/ NewPapers]_vars

\* C14 witness: the layout sampled for the author list on the tab switch is
\* the one displayed after a later frame, with the container resized.
C14_Witness ==
  /\ graphMounted
  /\ lastEvent.op = "Tick"
  /\ dimensions.width # 600
  /\ nodes.deps = Some(<<1, "AUTHOR_CONTEXT">>)
  /\ Len(nodes.value) = 2
  /\ nodes.value[1].angle # nodes.value[2].angle

\* C27: whenever the graph view is rendered, the layout and the score
\* statistics it uses were computed from the result list of that render:
\* the layout has one node per paper of the list, node i carrying paper i,
\* and the statistics are those of the list's scores.
C27_LayoutOfTheSameList ==
  graphMounted =>
    /\ nodes.deps = Some(papersIdentity)
    /\ Len(nodes.value) = Len(papersToShow)
    /\ \A k \in 1..Len(nodes.value) : nodes.value[k].paper = papersToShow[k]
    /\ Len(animatedNodes) = Len(papersToShow)
    /\ stats.deps = Some(papersIdentity)
    /\ stats.value = Some(scoreStats(papersToShow))

\* C27 witness: the tab was switched to the author list while the view was
\* mounted; the frame after it shows the author papers with the statistics
\* of their scores 50 and 90.
C27_Witness ==
  /\ graphMounted
  /\ activeTab = "AUTHOR_CONTEXT"
  /\ lastEvent.op = "Tick"
  /\ papersToShow = RespX.authorContextPapers
  /\ nodes.value[1].paper = Paper(TitleA, 50)
  /\ nodes.value[2].paper = Paper(TitleB, 90)
  /\ stats.value = Some([min |-> 50, max |-> 90, range |-> 40])

---------------------------------------------------------------------------
(* Properties of the layout sampler, the score statistics and the root     *)
(* placer (checked under SpecView)                                          *)

\* C15: for every non-empty result list the sampler returns exactly one
\* layout node per paper, in input order, each with a distance in
\* [0.50, 0.90] and an angle in [0, 2 pi), whether the node was accepted by
\* the collision test or when the attempt budget ran out.
C15_OneNodePerPaperInRange ==
  graphMounted /\ papersToShow # <<>> =>
    /\ Len(nodes.value) = Len(papersToShow)
    /\ \A k \in 1..Len(nodes.value) :
         /\ nodes.value[k].paper = papersToShow[k]
         /\ nodes.value[k].distance >= 50000
         /\ nodes.value[k].distance <= 90000
         /\ nodes.value[k].angle >= 0
         /\ nodes.value[k].angle < TwoPiMilli

\* C15 witness: three papers have three nodes, and the second node sits on
\* the first: no candidate passed the collision test, the budget ran out.
\* The render is the one after a click on a node.
C15_Witness ==
  /\ graphMounted
  /\ lastEvent.op = "ResultClick"
  /\ Len(papersToShow) = 3
  /\ Len(nodes.value) = 3
  /\ nodes.value[2].angle = nodes.value[1].angle
  /\ nodes.value[2].distance = nodes.value[1].distance

\* layout nodes j and k are far enough apart for the collision test
Separated(j, k) ==
  \/ Abs(nodes.value[j].angle - nodes.value[k].angle) >= 500
  \/ Abs(nodes.value[j].distance - nodes.value[k].distance) >= 20000

\* C25: a layout node accepted by the collision test is, against every node
\* placed before it, at least 0.5 away in angle or at least 0.2 away in
\* distance; a node that is closer than that to an earlier one was placed
\* only when the 150 attempts were used up.
C25_AcceptedNodesAreSeparated ==
  graphMounted =>
    \A k \in 1..Len(nodes.value) :
      /\ nodes.value[k].valid => \A j \in 1..(k - 1) : Separated(j, k)
      /\ (\E j \in 1..(k - 1) : ~Separated(j, k)) =>
           ~nodes.value[k].valid /\ nodes.value[k].attempts = 150

\* C25 witness: the first candidate for the second paper was too close to
\* the first node and was rejected, the second candidate was accepted; the
\* render is the one after a click on the background.
C25_Witness ==
  /\ graphMounted
  /\ lastEvent.op = "BackgroundClick"
  /\ Len(nodes.value) = 3
  /\ nodes.value[1].angle = 628 /\ nodes.value[1].distance = 58500
  /\ nodes.value[2].valid /\ nodes.value[2].attempts = 2
  /\ nodes.value[2].angle = 3769 /\ nodes.value[2].distance = 76000

\* the angle between two directions measured around the circle: the shorter
\* of the two arcs, in milliradians
ArcBetween(a, b) ==
  IF Abs(a - b) <= 6283 - Abs(a - b) THEN Abs(a - b) ELSE 6283 - Abs(a - b)

\* C38 as stated: a layout node accepted before the attempt budget was
\* exhausted is, against every node placed before it, at least 0.5 rad away
\* measured around the circle or at least 0.2 away in radial distance.
C38_SeparatedAroundTheCircle ==
  graphMounted =>
    \A k \in 1..Len(nodes.value) :
      nodes.value[k].valid =>
        \A j \in 1..(k - 1) :
          \/ ArcBetween(nodes.value[j].angle, nodes.value[k].angle) >= 500
          \/ Abs(nodes.value[j].distance - nodes.value[k].distance) >= 20000

\* the attempts made for the nodes before node k
RECURSIVE AttemptsBefore(_)
AttemptsBefore(k) ==
  IF k = 1 THEN 0 ELSE AttemptsBefore(k - 1) + nodes.value[k - 1].attempts

\* the n-th value (n = 0, 1, ...) the generator returned since the layout
\* was started; under SpecView a layout is sampled from the start of the
\* cycle
Drawn(n) == rng.cycle[(n % Len(rng.cycle)) + 1]

\* C26: the sampler ends for every list: each paper has a node, for which
\* at least one and at most 150 candidates were drawn, two random numbers
\* each; the node is the candidate drawn last, and when none of the 150 was
\* accepted that is the 150th.
C26_TerminatesWithLastCandidate ==
  graphMounted =>
    /\ Len(nodes.value) = Len(papersToShow)
    /\ \A k \in 1..Len(nodes.value) :
         \E before \in {2 * AttemptsBefore(k)} :
           \E node \in {nodes.value[k]} :
             /\ node.attempts >= 1 /\ node.attempts <= 150
             /\ ~node.valid => node.attempts = 150
             /\ node.angle =
                  (Drawn(before + 2 * (node.attempts - 1)) * 6283) \div 1000
             /\ node.distance =
                  55000 + Drawn(before + 2 * (node.attempts - 1) + 1) * 35
    /\ rng.pos = (2 * AttemptsBefore(Len(nodes.value) + 1)) % Len(rng.cycle)

\* C26 witness: every candidate for the second paper was too close to the
\* first node; after 150 attempts the node is the 150th candidate, which
\* is not the first one drawn for it.  The render is the one after the
\* pointer entered a node.
C26_Witness ==
  /\ graphMounted
  /\ lastEvent.op = "ResultMouseEnter"
  /\ rng.cycle = CrowdedCycle
  /\ Len(nodes.value) >= 2
  /\ ~nodes.value[2].valid /\ nodes.value[2].attempts = 150
  /\ nodes.value[2].angle = 1570 /\ nodes.value[2].distance = 79500
  /\ nodes.value[2].angle # (Drawn(2) * 6283) \div 1000

\* the scores of the displayed list, a missing score counting as 0
ShownScores ==
  [k \in 1..Len(papersToShow) |->
     IF papersToShow[k].relevanceScore = Null THEN 0
     ELSE papersToShow[k].relevanceScore[1]]

IsMaxScore(v) == \A k \in 1..Len(ShownScores) : ShownScores[k] <= v
IsMinScore(v) == \A k \in 1..Len(ShownScores) : ShownScores[k] >= v
AllScoresEqual == \A j, k \in 1..Len(ShownScores) : ShownScores[j] = ShownScores[k]

\* C16: when the scores of the list take at least two values, every paper
\* with the maximum score has relativeStrength exactly 1 and every paper
\* with the minimum score has relativeStrength exactly 0.
C16_ExtremesAreOneAndZero ==
  graphMounted /\ ~AllScoresEqual =>
    \A k \in 1..Len(animatedNodes) :
      /\ animatedNodes[k].relativeStrength.den > 0
      /\ IsMaxScore(ShownScores[k]) =>
           animatedNodes[k].relativeStrength.num
             = animatedNodes[k].relativeStrength.den
      /\ IsMinScore(ShownScores[k]) =>
           animatedNodes[k].relativeStrength.num = 0

\* C16 witness: scores 90, missing, 30: strengths 1, 0 and 1/3, in the
\* render after the pointer entered a node.
C16_Witness ==
  /\ graphMounted
  /\ lastEvent.op = "ResultMouseEnter"
  /\ ShownScores = <<90, 0, 30>>
  /\ papersToShow[2].relevanceScore = Null
  /\ animatedNodes[1].relativeStrength = [num |-> 90, den |-> 90]
  /\ animatedNodes[2].relativeStrength = [num |-> 0, den |-> 90]
  /\ animatedNodes[3].relativeStrength = [num |-> 30, den |-> 90]

\* C17: when the list is not empty and all its scores are equal, the range
\* that divides is 1 and relativeStrength is 0 for every paper.
C17_TiedScoresGiveZero ==
  graphMounted /\ papersToShow # <<>> /\ AllScoresEqual =>
    /\ scoreStats(papersToShow).range = 1
    /\ \A k \in 1..Len(animatedNodes) :
         animatedNodes[k].relativeStrength = [num |-> 0, den |-> 1]

\* C17 witness: three papers of score 90, in the render after the pointer
\* left a node.
C17_Witness ==
  /\ graphMounted
  /\ lastEvent.op = "ResultMouseLeave"
  /\ ShownScores = <<90, 90, 90>>
  /\ scoreStats(papersToShow) = [min |-> 90, max |-> 90, range |-> 1]
  /\ Len(animatedNodes) = 3

\* C18: with scores in 0..100 (a missing score counting as 0) every
\* relativeStrength lies in [0, 1], the base radius is
\* 25 + 30 * relativeStrength and so lies in [25, 55], and the displayed
\* radius is the base radius plus 5 exactly when the node is hovered or
\* active; the scores 90, 30, 30 give min 30, max 90, range 60, strengths
\* 1, 0, 0 and radii 55, 25, 25.
C18_RadiusFromStrength ==
  graphMounted =>
    /\ \A k \in 1..Len(animatedNodes) :
         LET node == animatedNodes[k]
             rs == node.relativeStrength
             shown == displayRadius(node)
         IN  /\ rs.den > 0 /\ 0 <= rs.num /\ rs.num <= rs.den
             /\ node.radius.den = rs.den
             /\ node.radius.num = 25 * rs.den + 30 * rs.num
             /\ 25 * node.radius.den <= node.radius.num
             /\ node.radius.num <= 55 * node.radius.den
             /\ shown.den = node.radius.den
             /\ shown.num =
                  IF resultId(k - 1) = hoveredId \/ resultId(k - 1) = activeNodeId
                  THEN node.radius.num + 5 * node.radius.den
                  ELSE node.radius.num
    /\ ShownScores = <<90, 30, 30>> =>
         /\ scoreStats(papersToShow) = [min |-> 30, max |-> 90, range |-> 60]
         /\ animatedNodes[1].relativeStrength = [num |-> 60, den |-> 60]
         /\ animatedNodes[2].relativeStrength = [num |-> 0, den |-> 60]
         /\ animatedNodes[3].relativeStrength = [num |-> 0, den |-> 60]
         /\ animatedNodes[1].radius = [num |-> 55 * 60, den |-> 60]
         /\ animatedNodes[2].radius = [num |-> 25 * 60, den |-> 60]
         /\ animatedNodes[3].radius = [num |-> 25 * 60, den |-> 60]

\* C18 witness: scores 90, 30, 30 with node 0 hovered and node 1 active:
\* the displayed radii are 60, 30 and 25.
C18_Witness ==
  /\ graphMounted
  /\ ShownScores = <<90, 30, 30>>
  /\ hoveredId = resultId(0)
  /\ activeNodeId = resultId(1)
  /\ displayRadius(animatedNodes[1]) = [num |-> 60 * 60, den |-> 60]
  /\ displayRadius(animatedNodes[2]) = [num |-> 30 * 60, den |-> 60]
  /\ displayRadius(animatedNodes[3]) = [num |-> 25 * 60, den |-> 60]

\* what rounding cos and sin to thousandths may add to a product of two
\* offsets (in millionths of a square pixel)
TrigSlack == 3000000

Near(a, b) == Abs(a - b) <= TrigSlack

\* C19: the root placer returns one offset per root paper, in order: (0, 0)
\* for one root, (-25, 0) and (+25, 0) for two, and for three or more the
\* points of the circle of radius 30 at the angles 2 pi i / N, all at the
\* same distance from the centre and each one 2 pi / N after the one
\* before.
C19_RootOffsets ==
  graphMounted =>
    LET roots == rootNodes(contextPapers)
        N == Len(contextPapers)
        next(k) == IF k = N THEN 1 ELSE k + 1
    IN  /\ Len(roots) = N
        /\ \A k \in 1..N : roots[k].paper = contextPapers[k]
        /\ N = 1 => roots[1].ox = 0 /\ roots[1].oy = 0
        /\ N = 2 =>
             /\ roots[1].ox = -25000 /\ roots[1].oy = 0
             /\ roots[2].ox = 25000 /\ roots[2].oy = 0
        /\ N >= 3 =>
             \A k \in 1..N :
               /\ Near(roots[k].ox * roots[k].ox + roots[k].oy * roots[k].oy,
                       900000000)
               /\ Near(roots[k].ox * roots[next(k)].ox
                         + roots[k].oy * roots[next(k)].oy,
                       900000 * Cos(360 \div N))
               /\ Near(roots[k].ox * roots[next(k)].oy
                         - roots[k].oy * roots[next(k)].ox,
                       900000 * Sin(360 \div N))

\* C19 witness: five roots; the second one is placed at 72 degrees, in the
\* render after a click on the background.
C19_Witness ==
  /\ graphMounted
  /\ lastEvent.op = "BackgroundClick"
  /\ Len(contextPapers) = 5
  /\ rootNodes(contextPapers)[2].ox = 9270
  /\ rootNodes(contextPapers)[2].oy = 28530

---------------------------------------------------------------------------
(* Properties of the animation clock (checked under SpecGraph) *)

\* C20: while the graph view is mounted the clock never decreases: a frame
\* callback advances it by exactly one increment and no other event
\* changes it.
C20_ClockAdvancesOnlyByFrames ==
  [][graphMounted /\ graphMounted' =>
       /\ time' >= time
       /\ lastEvent'.op = "Tick" => time' = time + TimeStep
       /\ lastEvent'.op # "Tick" => time' = time]_vars

\* C20 witness: a frame advanced the clock of the mounted view, and the
\* resize handled after it left the clock alone.
C20_Witness ==
  /\ graphMounted
  /\ lastEvent.op = "Resize"
  /\ dimensions.width # 600
  /\ time = TimeStep + TimeStep

---------------------------------------------------------------------------
(* Properties of the effects (checked under SpecFrames) *)

\* C21: after the graph view is unmounted, whether before or after frames
\* were delivered, no animation frame callback runs and no resize
\* notification is handled: the unmount finds exactly the request whose
\* handle animationFrame holds pending, and leaves no request pending and
\* no observer connected.
C21_NoCallbackAfterUnmount ==
  [][/\ lastEvent'.op \in {"Tick", "Resize"} => graphMounted
     /\ graphMounted /\ ~graphMounted' =>
          /\ animationFrame # Null
          /\ frameRequests = {FrameRequest(animationFrame[1], TRUE)}
     /\ ~graphMounted' => frameRequests' = {} /\ ~observing']_vars

\* C21 witness: the view toggle unmounted the graph view; nothing is
\* pending and nothing is observed.
C21_Witness ==
  /\ ~graphMounted
  /\ lastEvent.op = "SetViewMode"
  /\ frameRequests = {}
  /\ animationFrame = Null
  /\ ~observing

\* C24: with an empty result list displayed the score statistics are
\* {min 0, max 100, range 100}, the layout and the animated nodes are
\* empty, the two result layers are empty, and the frame, resize, root
\* hover, root click and background click events can all be handled (a
\* frame up to the bound on frames, a pointer entry up to the bound on
\* overlapping nodes).
C24_EmptyListIsServed ==
  graphMounted /\ papersToShow = <<>> =>
    /\ stats.value = Some([min |-> 0, max |-> 100, range |-> 100])
    /\ nodes.value = <<>>
    /\ animatedNodes = <<>>
    /\ inactiveResults = <<>> /\ activeResults = <<>>
    /\ time <= MaxTicks * TimeStep => ENABLED Tick
    /\ \A w \in Widths : ENABLED Resize(w)
    /\ ENABLED BackgroundClick
    /\ \A i \in rootIndices :
         /\ ENABLED RootClick(i)
         /\ rootId(i) \in pointerOver => ENABLED RootMouseLeave(i)
         /\ rootId(i) \notin pointerOver /\ Cardinality(pointerOver) < MaxOver
              => ENABLED RootMouseEnter(i)

\* C24 witness: the empty author list is displayed; a frame was delivered,
\* the pointer is over a root and the container was resized last.
C24_Witness ==
  /\ graphMounted
  /\ papersToShow = <<>>
  /\ nodes = [deps |-> Some(<<3, "AUTHOR_CONTEXT">>), value |-> <<>>]
  /\ time = TimeStep + TimeStep
  /\ hoveredId = rootId(0)
  /\ activeNodeId = rootId(1)
  /\ lastEvent = Event("Resize", Num(320), <<>>)

\* C28: an animation frame changes the clock and nothing else of what the
\* view shows: hoveredId, activeNodeId, selectedPaper, dimensions, the
\* layout, the root offsets and the score statistics stay as they are, and
\* so does the state of App.
C28_TickChangesOnlyTime ==
  [][lastEvent'.op = "Tick" =>
       /\ time' = time + 5
       /\ hoveredId' = hoveredId
       /\ activeNodeId' = activeNodeId
       /\ selectedPaper' = selectedPaper
       /\ dimensions' = dimensions
       /\ nodes' = nodes
       /\ stats' = stats
       /\ rootNodes(contextPapers') = rootNodes(contextPapers)
       /\ UNCHANGED appVars]_vars

\* C28 witness: a frame was delivered while a node was hovered, another one
\* active, a paper selected and the container 320 wide.
C28_Witness ==
  /\ graphMounted
  /\ lastEvent.op = "Tick"
  /\ time = 10
  /\ hoveredId = resultId(0)
  /\ activeNodeId = rootId(0)
  /\ selectedPaper # Null
  /\ dimensions.width = 320

\* C29: a resize notification changes dimensions only: the width becomes
\* the reported width, the height is 600, and hoveredId, activeNodeId,
\* selectedPaper, the clock and the angle and distance of every layout node
\* stay as they are.
C29_ResizeChangesOnlyDimensions ==
  [][lastEvent'.op = "Resize" =>
       /\ dimensions' = [width |-> lastEvent'.id[2], height |-> 600]
       /\ hoveredId' = hoveredId
       /\ activeNodeId' = activeNodeId
       /\ selectedPaper' = selectedPaper
       /\ time' = time
       /\ Len(nodes'.value) = Len(nodes.value)
       /\ \A k \in 1..Len(nodes.value) :
            /\ nodes'.value[k].angle = nodes.value[k].angle
            /\ nodes'.value[k].distance = nodes.value[k].distance]_vars

\* C29 witness: the container was reported 320 wide after a frame, while a
\* node was hovered, another one active and a paper selected.
C29_Witness ==
  /\ graphMounted
  /\ lastEvent = Event("Resize", Num(320), <<>>)
  /\ dimensions = [width |-> 320, height |-> 600]
  /\ time = 10
  /\ hoveredId = resultId(1)
  /\ activeNodeId = rootId(0)
  /\ selectedPaper # Null
  /\ Len(nodes.value) = 2

\* C30 (checked under SpecFramesFair): while the graph view is mounted the
\* request made last is pending, and with frames delivered fairly the
\* clock goes on to increase for as long as the view stays mounted (up to
\* the bound on frames).
C30_AnimatorNeverStops ==
  /\ [](graphMounted =>
         /\ animationFrame # Null
         /\ FrameRequest(animationFrame[1], TRUE) \in frameRequests)
  /\ \A k \in 1..MaxTicks :
       (graphMounted /\ time = k * TimeStep)
         ~> (~graphMounted \/ time > k * TimeStep)

\* C30 witness: a frame was delivered to the mounted view and the request
\* made by it is pending.
C30_Witness ==
  /\ graphMounted
  /\ lastEvent.op = "Tick"
  /\ time = 10
  /\ animationFrame = Some(2)
  /\ frameRequests = {FrameRequest(2, TRUE)}

---------------------------------------------------------------------------
(* Properties of the remote calls (checked under SpecRemote) *)

\* C22: when an analysis call fails (the remote call errors, or answers
\* without text, with an empty text or with a text that is not JSON), the
\* search state becomes isLoading = false, error = the user-visible
\* message, data = null: no results are left on display without a message.
C22_FailureShowsMessage ==
  [][lastEvent'.op = "AnalysisRejects" =>
       /\ state'.isLoading = FALSE
       /\ state'.error # Null /\ state'.error = Some(ErrorMessage)
       /\ state'.data = Null
       /\ ~resultsShown']_vars

\* C22 witness: the second analysis failed, after the first one had been
\* settled: the message is shown and no data is kept.
C22_Witness ==
  /\ lastEvent.op = "AnalysisRejects"
  /\ calls = 2 /\ pending = {}
  /\ state = [isLoading |-> FALSE, error |-> Some(ErrorMessage), data |-> Null]

---------------------------------------------------------------------------
(* Properties of the suggestion service (checked under SpecSuggest) *)

\* C23: getPaperSuggestions never throws: for a query of fewer than 3
\* characters it returns the empty list without calling the remote service,
\* and it returns the empty list when the remote call errors, answers
\* without text or answers with a text that is not JSON.
C23_SuggestNeverFails ==
  suggestCall # Null =>
    LET call == suggestCall[1]
    IN  /\ ~call.result.threw
        /\ Len(call.query) < 3 =>
             ~call.called /\ call.result.value = <<>>
        /\ Len(call.query) >= 3 => call.called
        /\ call.called /\ call.remote[1] \in RemoteFailures =>
             call.result.value = <<>>

\* C23 witness: a query of three characters was sent and the answer was not
\* JSON; the call returned the empty list.
C23_Witness ==
  /\ suggestCall # Null
  /\ Len(suggestCall[1].query) = 3
  /\ suggestCall[1].called
  /\ suggestCall[1].remote = Some(GarbledText)
  /\ suggestCall[1].result = Returned(<<>>)

---------------------------------------------------------------------------
(* Properties of the search context (checked under SpecApp) *)

\* the step is an Add of result node i, whose title is / is not in the
\* ContextSet
AddOfKnown(i) ==
  /\ lastEvent' = Event("ResultAdd", resultId(i), <<>>)
  /\ \E k \in 1..Len(contextPapers) :
       contextPapers[k].title = resultPaper(i).title
AddOfNew(i) ==
  /\ lastEvent' = Event("ResultAdd", resultId(i), <<>>)
  /\ \A k \in 1..Len(contextPapers) :
       contextPapers[k].title # resultPaper(i).title

\* C6: an Add of a paper whose title is already in the ContextSet changes
\* neither the ContextSet, nor the history, nor the search state, and starts
\* no analysis call.
C6_AddOfKnownTitleIsNoOp ==
  [][\A i \in NodeIndices :
       AddOfKnown(i) =>
         UNCHANGED <<contextPapers, searchHistory, state, pending, calls>>]_vars

\* C6 witness: an Add was handled and the graph is still displayed, with a
\* ContextSet of two papers: the Add was one of a known title.
C6_Witness ==
  /\ lastEvent.op = "ResultAdd"
  /\ graphMounted
  /\ Len(contextPapers) = 2
  /\ pending = {}

\* C7: the ContextSet never holds two papers with the same title.
C7_NoDuplicateTitles ==
  \A j, k \in 1..Len(contextPapers) :
    j # k => contextPapers[j].title # contextPapers[k].title

\* C7 witness: after an initial search and two Adds the ContextSet holds
\* three papers, and a further Add of one of them was refused.
C7_Witness ==
  /\ lastEvent.op = "ResultAdd"
  /\ graphMounted
  /\ Len(contextPapers) = 3

\* C8: an Add of a paper with a new title appends it to the ContextSet and
\* starts exactly one analysis call, over the titles of the new ContextSet
\* in order.
C8_AddAppendsAndAnalyses ==
  [][\A i \in NodeIndices :
       AddOfNew(i) =>
         /\ contextPapers' = Append(contextPapers, resultPaper(i))
         /\ calls' = calls + 1
         /\ pending' = pending \cup
              {[ref |-> calls + 1,
                titles |-> [k \in 1..Len(contextPapers') |-> contextPapers'[k].title]]}
         /\ pending' # pending]_vars

\* C8 witness: the second result node was added to a context of two papers
\* and the analysis of the three titles is in flight.
C8_Witness ==
  /\ lastEvent = Event("ResultAdd", resultId(1), <<>>)
  /\ Len(contextPapers) = 3
  /\ contextPapers[1].title = TitleA
  /\ \E c \in pending : c.titles = <<TitleA, TitleB, TitleC>>

\* C9 as stated: the length of the ContextSet never decreases, except by a
\* reset to the empty landing state.
C9_ContextNeverShrinks ==
  [][\/ Len(contextPapers') >= Len(contextPapers)
     \/ isLanding' /\ contextPapers' = <<>>]_vars

\* C9 amended: the length of the ContextSet decreases only by a pivot or an
\* initial search, which leave a ContextSet of one paper, or by restoring a
\* history entry; never by an Add.
C9_ContextShrinksOnlyByReplacement ==
  [][Len(contextPapers') < Len(contextPapers) =>
       \/ /\ lastEvent'.op \in DoubleClickOps \cup {"SubmitSearch"}
          /\ Len(contextPapers') = 1
       \/ /\ lastEvent'.op = "RestoreHistory"
          /\ \E k \in 1..Len(searchHistory) : contextPapers' = searchHistory[k]]_vars

\* C9 witness: a result node was double-clicked while the ContextSet held
\* two papers; the ContextSet now holds the one pivot paper.
C9_Witness ==
  /\ lastEvent.op = "ResultDoubleClick"
  /\ Len(contextPapers) = 1
  /\ Len(searchHistory) > 1
  /\ Len(searchHistory[2]) = 2

---------------------------------------------------------------------------
(* Properties of the mounted graph view across result lists (under Spec) *)

\* C10 as stated: in the first state that displays a result list of a new
\* identity, hoveredId, activeId and selectedPaper are all null.
C10_NewListStartsCleared ==
  [][graphMounted' /\ (~graphMounted \/ papersIdentity' # papersIdentity) =>
       hoveredId' = Null /\ activeNodeId' = Null /\ selectedPaper' = Null]_vars

---------------------------------------------------------------------------
(* Properties of the search state across overlapping analysis calls *)

\* C31 as stated: whenever no analysis call is in flight and result data is
\* displayed, the data is the response to the analysis of the titles of the
\* current ContextSet.
C31_DataIsOfCurrentContext ==
  (pending = {} /\ state.data # Null /\ resultsShown) =>
     state.data[1].titles = titlesOf(contextPapers)

\* C32 as stated: isLoading is true in every state in which an analysis
\* call is in flight and false in every state in which none is.
C32_LoadingIffInFlight == state.isLoading <=> pending # {}

\* C33: error and data are never both non-null, and isLoading is never true
\* while error is non-null.
C33_ErrorExcludesDataAndLoading ==
  state.error # Null => state.data = Null /\ ~state.isLoading

\* C33 witness: a call failed while a call started later is still in
\* flight, after results had been displayed (the history is only shown
\* then); the error is up, without data and without the loading flag.
C33_Witness ==
  /\ lastEvent.op = "AnalysisRejects"
  /\ state.error = Some(ErrorMessage)
  /\ pending # {}
  /\ Len(searchHistory) > 0

---------------------------------------------------------------------------
(* Properties of the detail overlay (under SpecGraph) *)

\* C36 as stated: while the detail overlay is open, a click inside the
\* overlay card other than on its dismiss button leaves selectedPaper and
\* activeId unchanged, and selectedPaper returns to null only by the dismiss
\* action or a click on the graph background.
C36_OverlayClickKeepsSelection ==
  [][/\ lastEvent'.op = "OverlayClick" /\ selectedPaper # Null =>
          UNCHANGED <<selectedPaper, activeNodeId>>
     /\ graphMounted' /\ selectedPaper # Null /\ selectedPaper' = Null =>
          lastEvent'.op \in {"DismissClick", "BackgroundClick"}]_vars

---------------------------------------------------------------------------
(* Properties of the search history (under SpecHistory) *)

\* the titles of a context, as a set
titleSet(context) == {context[k].title : k \in 1..Len(context)}

\* the five most recent of a list of contexts
newestFive(contexts) ==
  SubSeq(contexts, 1, IF Len(contexts) < 5 THEN Len(contexts) ELSE 5)

\* C35 as stated: the history holds at most 5 contexts and no two adjacent
\* entries have the same set of titles; adding a context whose sorted titles
\* equal those of the head leaves the history unchanged, any other addition
\* is placed at the head and the entries beyond five are dropped; restoring
\* an entry leaves the history unchanged.
C35_HistoryOfDistinctContexts ==
  [][/\ Len(searchHistory') <= 5
     /\ \A k \in 1..(Len(searchHistory') - 1) :
          titleSet(searchHistory'[k]) # titleSet(searchHistory'[k + 1])
     /\ calls' = calls + 1 /\ lastEvent'.op # "RestoreHistory" =>
          searchHistory' =
            IF /\ searchHistory # <<>>
               /\ sort(titlesOf(contextPapers'))
                    = sort(titlesOf(searchHistory[1]))
            THEN searchHistory
            ELSE newestFive(<<contextPapers'>> \o searchHistory)
     /\ lastEvent'.op = "RestoreHistory" =>
          searchHistory' = searchHistory]_vars

---------------------------------------------------------------------------
(* Properties of the list view (under SpecList) *)

\* C34 as stated: whenever the list view renders a card, currentCardIndex
\* is a valid index of the displayed list, in the first render after a
\* navigation step or a change of the tab or the data as well as in the
\* state that render leaves.
C34_CardIndexIsValid ==
  listShown =>
    /\ activeCard[1].index \in 0..(Len(papersToShow) - 1)
    /\ activeCard[1].paper = Some(resultPaper(activeCard[1].index))
    /\ currentCardIndex \in 0..(Len(papersToShow) - 1)

---------------------------------------------------------------------------
(* Properties of the autocomplete (under SpecAutocomplete) *)

\* C37 as stated: from the selection of a suggestion, a pivot or a history
\* restore that writes the query until the user edits the query again, the
\* dropdown is closed and the suggestion list is empty, whatever suggestion
\* fetches were in flight.
C37_DropdownStaysClosed ==
  querySelected => ~dropdownShown /\ suggestions = <<>>

\* C39 as stated: a user edit that leaves a query of at least 3 non-blank
\* characters sets the 600 ms timer for that query, and the timer, when it
\* fires, starts a suggestion fetch for it; the skip flag suppresses only
\* the fetch for the query change of the action that set it.
C39_EveryEditStartsFetch ==
  [][/\ lastEvent'.op = "ChangeQuery" /\ query' # query
                                      /\ Len(trim(query')) >= 3 =>
          debounceTimer' = Some(query')
     /\ lastEvent'.op = "TimerFires" /\ Len(trim(debounceTimer[1])) >= 3 =>
          suggestFetches' = Append(suggestFetches, debounceTimer[1])]_vars

====
